---- MODULE Spec2Model ----
(***************************************************************************)
(* Model of the jewelry-storefront backend: the image codec helpers, the   *)
(* image ingestion endpoints (multipart, base64, remote URL), the product  *)
(* lookup handlers and the order intake handler.                           *)
(*                                                                         *)
(* Strings are sequences of one-character strings, so that the regular     *)
(* expressions of the source are matched character by character.  A        *)
(* JavaScript value is a record tagged with its typeof.                    *)
(***************************************************************************)
EXTENDS Integers, Sequences, FiniteSets, TLC

VARIABLES
  disk,      \* the files on disk: records [dir, prefix, id, ext]
  unlinks,   \* how many times each file has been unlinked
  nextId,    \* source of Date.now() + '-' + random suffixes
  products,  \* the Product collection: stored document by ObjectId
  orders,    \* the Order collection: sequence of stored orders
  queries,   \* number of lookups the store has been asked to run
  req,       \* the request being answered (or the codec input)
  resp,      \* the response sent for req
  nreq,      \* number of requests served
  clock,     \* the time: what new Date() returns
  proc       \* the process: server, store connection, timers and exit

vars == <<disk, unlinks, nextId, products, orders, queries, req, resp, nreq, clock,
          proc>>

\* ------------------------------------------------------------------ bounds
MaxRequests == 2
MaxTime == 5
MaxImages == 5
MaxSignals == 2
\* the listings read in a behaviour: a listing leaves the store as it is
MaxListings == 1

\* ------------------------------------------------------------- characters
Lower == {"a","b","c","d","e","f","g","h","i","j","k","l","m",
          "n","o","p","q","r","s","t","u","v","w","x","y","z"}
Upper == {"A","B","C","D","E","F","G","H","I","J","K","L","M",
          "N","O","P","Q","R","S","T","U","V","W","X","Y","Z"}
Digit == {"0","1","2","3","4","5","6","7","8","9"}
\* JavaScript's line terminators, which '.' does not match
LineTerminators == {"\n", "\r"}

\* String.prototype.startsWith at position i (1-based)
StartsWithAt(s, i, p) ==
  /\ Len(s) >= i + Len(p) - 1
  /\ \A k \in 1..Len(p) : s[i + k - 1] = p[k]

StartsWith(s, p) == StartsWithAt(s, 1, p)

EndsWith(s, p) == Len(s) >= Len(p) /\ StartsWithAt(s, Len(s) - Len(p) + 1, p)

\* the index just after the longest run of characters of class C from i
RECURSIVE RunEnd(_, _, _)
RunEnd(s, i, C) ==
  IF i <= Len(s) /\ s[i] \in C THEN RunEnd(s, i + 1, C) ELSE i

\* --------------------------------------------------------- JavaScript values
Undefined == [t |-> "undefined"]
Null      == [t |-> "object", null |-> TRUE]
Str(s)    == [t |-> "string", s |-> s]
Num(n)    == [t |-> "number", n |-> n]
Bool(b)   == [t |-> "boolean", b |-> b]
Obj       == [t |-> "object", null |-> FALSE, array |-> FALSE]
Arr(a)    == [t |-> "object", null |-> FALSE, array |-> TRUE, a |-> a]

TypeOf(v) == v.t

\* !v
Falsy(v) ==
  CASE v.t = "undefined" -> TRUE
    [] v.t = "string"    -> v.s = <<>>
    [] v.t = "number"    -> v.n = 0
    [] v.t = "boolean"   -> ~v.b
    [] v.t = "object"    -> v.null

IsArray(v) == v.t = "object" /\ ~v.null /\ v.array

\* ------------------------------------------------------------- image codec
DataImagePrefix == <<"d","a","t","a",":","i","m","a","g","e","/">>
DataPrefix      == <<"d","a","t","a",":">>
Base64Marker    == <<";","b","a","s","e","6","4",",">>
HttpPrefix      == <<"h","t","t","p",":","/","/">>

\* /^data:image\/[a-z]+;base64,/.test(s)
IsBase64RegexBroken(s) ==
  LET from == Len(DataImagePrefix) + 1
      to   == RunEnd(s, from, Lower \cup Upper \cup {"-", "+", "/"})
  IN  /\ StartsWith(s, DataImagePrefix)
      /\ StartsWithAt(s, to, Base64Marker)

IsBase64Regex(s) ==
  LET from == Len(DataImagePrefix) + 1
      to   == RunEnd(s, from, Lower)
  IN  /\ StartsWith(s, DataImagePrefix)
      /\ to > from
      /\ StartsWithAt(s, to, Base64Marker)

\* const isBase64 = (str) => { ... }
isBase64(str) ==
  IF Falsy(str) \/ TypeOf(str) # "string"
  THEN FALSE
  ELSE IsBase64Regex(str.s)

\* ------------------------------------------------------------ codec inputs
\* how a candidate string begins
UriSchemes ==
  {<<"d","a","t","a",":">>,
   <<"D","A","T","A",":">>,
   <<>>,
   <<"h","t","t","p",":","/","/">>,
   <<"x","d","a","t","a",":">>}

\* the MIME type up to the slash
UriTypes ==
  {<<"i","m","a","g","e","/">>,
   <<"t","e","x","t","/">>,
   <<"i","m","a","g","e">>,
   <<"I","m","a","g","e","/">>,
   <<>>}

\* the MIME subtype
UriSubtypes ==
  {<<"p","n","g">>,
   <<"j","p","e","g">>,
   <<"P","N","G">>,
   <<"s","v","g","+","x","m","l">>,
   <<"x","-","i","c","o","n">>,
   <<"p","1">>,
   <<>>}

\* what separates the MIME type from the payload
UriMarkers ==
  {<<";","b","a","s","e","6","4",",">>,
   <<";","b","a","s","e","6","4">>,
   <<",">>,
   <<";","c","h","a","r","s","e","t","=","u","t","f","-","8",";","b","a","s","e","6","4",",">>,
   <<";","B","A","S","E","6","4",",">>,
   <<>>}

\* the payload
UriPayloads ==
  {<<>>,
   <<"Q","U","J","D">>,
   <<"Q","\n","Q">>,
   <<"@">>}

\* every string built as scheme type subtype marker payload
CandidateStrings ==
  {a \o b \o c \o d \o e : a \in UriSchemes, b \in UriTypes, c \in UriSubtypes,
                            d \in UriMarkers, e \in UriPayloads}

\* the values handed to isBase64: strings and the non-string values
CodecInputs ==
  {Str(s) : s \in CandidateStrings}
    \cup {Undefined, Null, Num(0), Num(1), Bool(FALSE), Bool(TRUE), Obj, Arr(<<>>)}

\* ------------------------------------------------------------- idle values
NoReq  == [ep |-> "none"]
NoResp == [ep |-> "none"]

\* ----------------------------------------------------------- the process
\* the state of the process: NODE_ENV, the HTTP server, readyState of the
\* store connection, where connectDB stands, the timers and the exit
NotExited == [by |-> "none", code |-> 0]

\* the process after a start without trouble: listening and connected at the
\* first attempt
Started ==
  [env |-> "production", server |-> "listening", db |-> 1, connect |-> "done",
   attempts |-> 1, failures |-> 0, successAt |-> 1, delays |-> <<>>,
   retryAt |-> {}, signals |-> 0, signalAt |-> {}, forceAt |-> {},
   closeCallbacks |-> 0, closeCalls |-> 0,
   exit |-> NotExited]

\* the server state right after start-up: empty upload directories and an
\* empty order collection
FreshServer ==
  /\ proc = Started
  /\ disk = {}
  /\ unlinks = <<>>
  /\ nextId = 1
  /\ orders = <<>>
  /\ queries = 0
  /\ nreq = 0
  /\ clock = 0

\* ------------------------------------------------------------ file system
TempDir == "temp-uploads"
PermDir == "uploads"

\* a file on disk
FileAt(dir, prefix, id, ext) == [dir |-> dir, prefix |-> prefix, id |-> id, ext |-> ext]

UnlinkCount(u, f) == IF f \in DOMAIN u THEN u[f] ELSE 0

\* fs.unlinkSync(f)
Unlinked(u, f) == (f :> (UnlinkCount(u, f) + 1)) @@ u

\* cleanupTempFiles(filepath): unlink the file when it exists; the result is
\* the disk and the unlink counts afterwards
cleanupTempFiles(d, u, f) ==
  IF f \in d
  THEN [disk |-> d \ {f}, unlinks |-> Unlinked(u, f)]
  ELSE [disk |-> d, unlinks |-> u]

\* index of the last '.' of a file name, 0 when there is none
RECURSIVE LastDot(_, _)
LastDot(name, i) ==
  IF i = 0 THEN 0
  ELSE IF name[i] = "." THEN i ELSE LastDot(name, i - 1)

\* path.extname(originalname)
ExtName(name) ==
  LET i == LastDot(name, Len(name))
  IN  IF i <= 1 THEN <<>> ELSE SubSeq(name, i, Len(name))

\* ------------------------------------------------------- multipart parsing
\* limits: { fileSize: 5 * 1024 * 1024 }
FileSizeLimit == 5 * 1024 * 1024

NoFile == [present |-> FALSE]
FilePart(mimetype, originalname, size) ==
  [present |-> TRUE, mimetype |-> mimetype, originalname |-> originalname,
   size |-> size]

ImageSlash == <<"i","m","a","g","e","/">>

\* fileFilter of the routers: file.mimetype.startsWith('image/')
fileFilter(file) == StartsWith(file.mimetype, ImageSlash)

\* fileFilter of the application-level upload:
\* file.originalname.match(/\.(jpg|jpeg|png|gif)$/)
appFileFilter(file) ==
  \/ EndsWith(file.originalname, <<".","j","p","g">>)
  \/ EndsWith(file.originalname, <<".","j","p","e","g">>)
  \/ EndsWith(file.originalname, <<".","p","n","g">>)
  \/ EndsWith(file.originalname, <<".","g","i","f">>)

\* what multer does with one file part: no part, rejected by the file filter
\* (nothing is written), cut off at the size limit (the part written so far
\* is removed again), or stored
MulterOutcome(accepted, file) ==
  IF ~file.present THEN "nofile"
  ELSE IF ~accepted THEN "rejected"
  ELSE IF file.size > FileSizeLimit THEN "toolarge"
  ELSE "stored"

\* the disk and unlink counts after multer has handled a file part that it
\* writes to f
MulterDisk(d, u, outcome, f) ==
  CASE outcome = "stored"   -> [disk |-> d \cup {f}, unlinks |-> u]
    [] outcome = "toolarge" -> [disk |-> d, unlinks |-> Unlinked(u, f)]
    [] OTHER                -> [disk |-> d, unlinks |-> u]

MulterFailed(outcome) == outcome \in {"rejected", "toolarge"}

\* the file parts a client may send
MimeTypes ==
  {<<"i","m","a","g","e","/","p","n","g">>,
   <<"t","e","x","t","/","p","l","a","i","n">>}

OriginalNames ==
  {<<"a",".","p","n","g">>, <<"a",".","t","x","t">>}

FileParts ==
  {FilePart(m, n, s) : m \in MimeTypes, n \in OriginalNames,
                       s \in {FileSizeLimit, FileSizeLimit + 1}}

\* ----------------------------------------------------------------- responses
\* a response: the endpoint, the HTTP status, the message and body, whether
\* the route handler's body ran, the temporary files multer created for the
\* request and the files the request wrote to permanent storage
Response(ep, status, message, body, ran, temps, wrote) ==
  [ep |-> ep, status |-> status, message |-> message, body |-> body,
   ran |-> ran, temps |-> temps, wrote |-> wrote]

NoBody == [success |-> FALSE]

\* the general error middleware of the application, which answers every
\* error a router passes to next(err)
ErrorMiddleware(ep, temps) ==
  Response(ep, 500, "Internal Server Error", NoBody, FALSE, temps, {})

\* ------------------------------------------------------ base64 of bytes
Base64Alphabet ==
  <<"A","B","C","D","E","F","G","H","I","J","K","L","M",
    "N","O","P","Q","R","S","T","U","V","W","X","Y","Z",
    "a","b","c","d","e","f","g","h","i","j","k","l","m",
    "n","o","p","q","r","s","t","u","v","w","x","y","z",
    "0","1","2","3","4","5","6","7","8","9","+","/">>

Sextet(n) == Base64Alphabet[(n % 64) + 1]

\* buffer.toString('base64'): three bytes become four characters, a last
\* group of one or two bytes is padded with '='
RECURSIVE Base64Encode(_)
Base64Encode(bytes) ==
  CASE Len(bytes) = 0 -> <<>>
    [] Len(bytes) = 1 ->
         LET n == bytes[1] * 16
         IN  <<Sextet(n \div 64), Sextet(n), "=", "=">>
    [] Len(bytes) = 2 ->
         LET n == (bytes[1] * 256 + bytes[2]) * 4
         IN  <<Sextet(n \div 4096), Sextet(n \div 64), Sextet(n), "=">>
    [] OTHER ->
         LET n == (bytes[1] * 256 + bytes[2]) * 256 + bytes[3]
         IN  <<Sextet(n \div 262144), Sextet(n \div 4096), Sextet(n \div 64),
               Sextet(n)>> \o Base64Encode(SubSeq(bytes, 4, Len(bytes)))

\* ------------------------------------------------------- saveBase64Image
\* '/uploads/' + fileName
PublicUrl(fileName) == [path |-> "/uploads/", file |-> fileName]

\* the characters of [A-Za-z-+\/]
MimeClass == Lower \cup Upper \cup {"-", "+", "/"}

\* base64Data.match(/^data:([A-Za-z-+\/]+);base64,(.+)$/): the MIME type and
\* the payload, or no match
DataUriMatch(s) ==
  LET from == Len(DataPrefix) + 1
      to   == RunEnd(s, from, MimeClass)
      rest == SubSeq(s, to + Len(Base64Marker), Len(s))
  IN  IF /\ StartsWith(s, DataPrefix)
         /\ to > from
         /\ StartsWithAt(s, to, Base64Marker)
         /\ Len(rest) >= 1
         /\ \A k \in 1..Len(rest) : rest[k] \notin LineTerminators
      THEN [matched |-> TRUE, mimeType |-> SubSeq(s, from, to - 1), base64 |-> rest]
      ELSE [matched |-> FALSE]

\* index of the first '/' of s at or after i, Len(s) + 1 when there is none
RECURSIVE NextSlash(_, _)
NextSlash(s, i) ==
  IF i > Len(s) THEN i
  ELSE IF s[i] = "/" THEN i ELSE NextSlash(s, i + 1)

\* `${mimeType.split('/')[1]}`: the second segment, 'undefined' without one
SubtypeOf(mimeType) ==
  LET a == NextSlash(mimeType, 1)
      b == NextSlash(mimeType, a + 1)
  IN  IF a > Len(mimeType)
      THEN <<"u","n","d","e","f","i","n","e","d">>
      ELSE SubSeq(mimeType, a + 1, b - 1)

\* saveBase64Image(base64Data, uniqueId): rejected when the data does not
\* match or the write fails, else resolved with the file written
saveBase64Image(base64Data, uniqueId, writeOk) ==
  LET m == DataUriMatch(base64Data)
  IN  IF ~m.matched
      THEN [rejected |-> TRUE, error |-> "Invalid base64 string"]
      ELSE IF ~writeOk
      THEN [rejected |-> TRUE, error |-> "EIO"]
      ELSE LET fileName == FileAt(PermDir, "img_", uniqueId,
                                  <<".">> \o SubtypeOf(m.mimeType))
           IN  [rejected |-> FALSE, fileName |-> fileName,
                url |-> PublicUrl(fileName)]

\* --------------------------------------------------- serving one request
\* the outcome of a handler: the disk, the unlink counts and the response
Outcome(d, u, r) == [disk |-> d, unlinks |-> u, resp |-> r]

\* one request answered: ids is the number of unique suffixes it drew
Serve(request, out, ids) ==
  /\ req' = request
  /\ resp' = out.resp
  /\ disk' = out.disk
  /\ unlinks' = out.unlinks
  /\ nextId' = nextId + ids
  /\ nreq' = nreq + 1
  /\ UNCHANGED <<products, orders, queries, clock, proc>>

\* the temporary files multer created for a request
TempsOf(outcome, temp) == IF outcome \in {"stored", "toolarge"} THEN {temp} ELSE {}

\* a route registered as router.post(path, upload.single('image'), handler):
\* an error of multer goes to next(err), otherwise the handler answers
ThroughMulter(ep, outcome, afterMulter, temp, handled) ==
  IF MulterFailed(outcome)
  THEN Outcome(afterMulter.disk, afterMulter.unlinks,
               ErrorMiddleware(ep, TempsOf(outcome, temp)))
  ELSE handled

\* ------------------------------------------------ POST /upload/image
\* the handler body: d and u are the disk and unlink counts multer left
uploadImageHandler(d, u, file, temp, dest, copyOk) ==
  IF ~file.present
  THEN Outcome(d, u, Response("/upload/image", 400, "No image file provided",
                              NoBody, TRUE, {}, {}))
  ELSE IF ~copyOk
  THEN \* fs.copyFileSync throws: the catch answers, the cleanup is skipped
       Outcome(d, u, Response("/upload/image", 500, "Server error", NoBody,
                              TRUE, {temp}, {}))
  ELSE LET c == cleanupTempFiles(d \cup {dest}, u, temp)
       IN  Outcome(c.disk, c.unlinks,
                   Response("/upload/image", 200, "",
                            [success |-> TRUE, imageUrl |-> PublicUrl(dest),
                             fileName |-> dest],
                            TRUE, {temp}, {dest}))

UploadImage ==
  /\ nreq < MaxRequests
  /\ \E file \in FileParts \cup {NoFile}, copyOk \in BOOLEAN :
         LET outcome == MulterOutcome(IF file.present THEN fileFilter(file) ELSE FALSE,
                                      file)
             ext  == IF file.present THEN ExtName(file.originalname) ELSE <<>>
             temp == FileAt(TempDir, "img_", nextId, ext)
             dest == FileAt(PermDir, "img_", nextId + 1, ext)
             am   == MulterDisk(disk, unlinks, outcome, temp)
         IN  /\ outcome # "stored" => copyOk    \* nothing is copied otherwise
             /\ Serve([ep |-> "/upload/image", file |-> file, copyOk |-> copyOk],
                      ThroughMulter("/upload/image", outcome, am, temp,
                        uploadImageHandler(am.disk, am.unlinks, file, temp, dest, copyOk)),
                      2)

\* ------------------------------------------------ POST /upload/fingerprint
\* finalPath is built from uploadsDir, which this router sets to temp-uploads
uploadFingerprintHandler(d, u, file, temp, final, copyOk) ==
  IF ~file.present
  THEN Outcome(d, u, Response("/upload/fingerprint", 400, "No file uploaded",
                              NoBody, TRUE, {}, {}))
  ELSE IF ~copyOk
  THEN \* the copyFile callback answers with the error and returns
       Outcome(d, u, Response("/upload/fingerprint", 500, "Error saving file",
                              NoBody, TRUE, {temp}, {}))
  ELSE LET c == cleanupTempFiles(d \cup {final}, u, temp)
       IN  Outcome(c.disk, c.unlinks,
                   Response("/upload/fingerprint", 200,
                            "Fingerprint image uploaded successfully",
                            [success |-> TRUE, imageUrl |-> PublicUrl(final),
                             fileName |-> final],
                            TRUE, {temp}, {final}))

UploadFingerprint ==
  /\ nreq < MaxRequests
  /\ \E file \in FileParts \cup {NoFile}, copyOk \in BOOLEAN :
         LET outcome == MulterOutcome(IF file.present THEN fileFilter(file) ELSE FALSE,
                                      file)
             ext   == IF file.present THEN ExtName(file.originalname) ELSE <<>>
             temp  == FileAt(TempDir, "img_", nextId, ext)
             final == FileAt(TempDir, "fingerprint-", nextId + 1, ext)
             am    == MulterDisk(disk, unlinks, outcome, temp)
         IN  /\ outcome # "stored" => copyOk
             /\ Serve([ep |-> "/upload/fingerprint", file |-> file, copyOk |-> copyOk],
                      ThroughMulter("/upload/fingerprint", outcome, am, temp,
                        uploadFingerprintHandler(am.disk, am.unlinks, file, temp,
                                                 final, copyOk)),
                      2)

\* ------------------------------------------------ POST /api/upload
\* the application-level upload: multer is called inside the handler, which
\* answers multer's error itself; its storage writes into uploads directly
apiUploadHandler(d, u, outcome, stored) ==
  CASE MulterFailed(outcome) ->
         Outcome(d, u, Response("/api/upload", 400, "Upload failed", NoBody,
                                FALSE, {}, {}))
    [] outcome = "nofile" ->
         Outcome(d, u, Response("/api/upload", 400, "No file uploaded", NoBody,
                                TRUE, {}, {}))
    [] outcome = "stored" ->
         Outcome(d, u, Response("/api/upload", 200, "",
                                [success |-> TRUE, imageUrl |-> PublicUrl(stored),
                                 fileName |-> stored],
                                TRUE, {}, {stored}))

ApiUpload ==
  /\ nreq < MaxRequests
  /\ \E file \in FileParts \cup {NoFile} :
         LET outcome == MulterOutcome(IF file.present THEN appFileFilter(file) ELSE FALSE,
                                      file)
             ext    == IF file.present THEN ExtName(file.originalname) ELSE <<>>
             stored == FileAt(PermDir, "image-", nextId, ext)
             am     == MulterDisk(disk, unlinks, outcome, stored)
         IN  Serve([ep |-> "/api/upload", file |-> file],
                   apiUploadHandler(am.disk, am.unlinks, outcome, stored), 1)

\* ------------------------------------------------ POST /upload/base64
\* the handler without its validity gate: whatever arrives is handed to
\* saveBase64Image, where a value that is no string has no match method
uploadBase64HandlerNoGate(d, u, imageData, uniqueId, writeOk) ==
  LET result == IF TypeOf(imageData) = "string"
                THEN saveBase64Image(imageData.s, uniqueId, writeOk)
                ELSE [rejected |-> TRUE, error |-> "TypeError"]
  IN  IF result.rejected
      THEN Outcome(d, u, Response("/upload/base64", 500, "Server error",
                                  [success |-> FALSE, error |-> result.error],
                                  TRUE, {}, {}))
      ELSE Outcome(d \cup {result.fileName}, u,
                   Response("/upload/base64", 200, "",
                            [success |-> TRUE, imageUrl |-> result.url,
                             fileName |-> result.fileName],
                            TRUE, {}, {result.fileName}))

\* the handler of the category router
uploadBase64Handler(d, u, imageData, uniqueId, writeOk) ==
  IF Falsy(imageData) \/ ~isBase64(imageData)
  THEN Outcome(d, u, Response("/upload/base64", 400,
                              "Invalid or missing base64 image data", NoBody,
                              TRUE, {}, {}))
  ELSE LET result == saveBase64Image(imageData.s, uniqueId, writeOk)
       IN  IF result.rejected
           THEN Outcome(d, u, Response("/upload/base64", 500, "Server error",
                                       [success |-> FALSE, error |-> result.error],
                                       TRUE, {}, {}))
           ELSE Outcome(d \cup {result.fileName}, u,
                        Response("/upload/base64", 200, "",
                                 [success |-> TRUE, imageUrl |-> result.url,
                                  fileName |-> result.fileName],
                                 TRUE, {}, {result.fileName}))

\* the request bodies of the base64 endpoints
UploadStrings ==
  {DataPrefix \o b \o c \o d \o e :
     b \in {ImageSlash, <<"t","e","x","t","/">>},
     c \in {<<"p","n","g">>, <<"P","N","G">>},
     d \in {Base64Marker, <<",">>},
     e \in {<<>>, <<"Q","U","J","D">>, <<"Q","\n","Q">>}}
    \cup {HttpPrefix \o <<"x",".","p","n","g">>}

UploadBodies ==
  {Str(s) : s \in UploadStrings}
    \cup {Undefined, Null, Str(<<>>), Num(0), Num(1), Obj, Arr(<<>>)}

UploadBase64 ==
  /\ nreq < MaxRequests
  /\ \E imageData \in UploadBodies, writeOk \in BOOLEAN :
         \* nothing is written unless the data passes both checks
         /\ ~(isBase64(imageData) /\ DataUriMatch(imageData.s).matched) => writeOk
         /\ Serve([ep |-> "/upload/base64", imageData |-> imageData,
                   writeOk |-> writeOk],
                  uploadBase64Handler(disk, unlinks, imageData, nextId, writeOk), 1)

\* the handler of the image router, mounted under /upload-image: the file of
\* this router defines no saveBase64Image, so that the call throws a
\* ReferenceError, which the inner catch answers
imageUploadBase64Handler(d, u, imageData) ==
  IF Falsy(imageData) \/ ~isBase64(imageData)
  THEN Outcome(d, u, Response("/upload-image/upload/base64", 400,
                              "Invalid base64 image data", NoBody, TRUE, {}, {}))
  ELSE Outcome(d, u, Response("/upload-image/upload/base64", 500,
                              "Error saving base64 image",
                              [success |-> FALSE,
                               error |-> "saveBase64Image is not defined"],
                              TRUE, {}, {}))

ImageUploadBase64 ==
  /\ nreq < MaxRequests
  /\ \E imageData \in UploadBodies :
         Serve([ep |-> "/upload-image/upload/base64", imageData |-> imageData,
                writeOk |-> TRUE],
               imageUploadBase64Handler(disk, unlinks, imageData), 1)

\* ------------------------------------------------ POST /upload/url
\* `${mimeType}` for the content-type header, null when the header is absent
HeaderText(h) == IF h = Null THEN <<"n","u","l","l">> ELSE h.s

\* urlToBase64(url): the data-URI of the fetched bytes, null when the fetch
\* or the reading of the body throws
urlToBase64(fetched) ==
  IF fetched.threw THEN Null
  ELSE IF fetched.bodyThrew THEN Null
  ELSE Str(DataPrefix \o HeaderText(fetched.contentType) \o Base64Marker
             \o Base64Encode(fetched.body))

uploadUrlHandler(d, u, imageUrl, fetched, uniqueId, writeOk) ==
  IF Falsy(imageUrl)
  THEN Outcome(d, u, Response("/upload/url", 400, "No image URL provided",
                              NoBody, TRUE, {}, {}))
  ELSE LET base64Data == urlToBase64(fetched)
       IN  IF Falsy(base64Data)
           THEN Outcome(d, u, Response("/upload/url", 400,
                                       "Failed to fetch image from URL", NoBody,
                                       TRUE, {}, {}))
           ELSE LET result == saveBase64Image(base64Data.s, uniqueId, writeOk)
                IN  IF result.rejected
                    THEN Outcome(d, u,
                                 Response("/upload/url", 500, "Server error",
                                          [success |-> FALSE,
                                           error |-> result.error],
                                          TRUE, {}, {}))
                    ELSE Outcome(d \cup {result.fileName}, u,
                                 Response("/upload/url", 200, "",
                                          [success |-> TRUE,
                                           imageUrl |-> result.url,
                                           fileName |-> result.fileName],
                                          TRUE, {}, {result.fileName}))

\* what the remote server may answer
ContentTypes ==
  {Null,
   Str(<<"i","m","a","g","e","/","p","n","g">>),
   Str(<<"i","m","a","g","e","/","s","v","g","+","x","m","l">>),
   Str(<<"t","e","x","t","/","h","t","m","l">>),
   Str(<<"i","m","a","g","e","/","p","n","g",";"," ","c","h","a","r","s","e","t",
         "=","u","t","f","-","8">>)}

Bodies == {<<>>, <<65>>, <<65, 66, 67>>}

FetchThrew   == [threw |-> TRUE, bodyThrew |-> FALSE, contentType |-> Null,
                 body |-> <<>>]
Fetched(contentType, body) ==
  [threw |-> FALSE, bodyThrew |-> FALSE, contentType |-> contentType,
   body |-> body]
BodyThrew(contentType) ==
  [threw |-> FALSE, bodyThrew |-> TRUE, contentType |-> contentType,
   body |-> <<>>]

FetchOutcomes ==
  {FetchThrew} \cup {BodyThrew(c) : c \in ContentTypes}
    \cup {Fetched(c, b) : c \in ContentTypes, b \in Bodies}

ImageUrls == {Undefined, Str(<<>>), Str(HttpPrefix \o <<"x">>)}

UploadUrl ==
  /\ nreq < MaxRequests
  /\ \E imageUrl \in ImageUrls, fetched \in FetchOutcomes, writeOk \in BOOLEAN :
         /\ Falsy(imageUrl) => fetched = FetchThrew    \* nothing is fetched
         \* nothing is written unless a data-URI that matches was built
         /\ ~(~Falsy(urlToBase64(fetched)) /\ DataUriMatch(urlToBase64(fetched).s).matched)
              => writeOk
         /\ Serve([ep |-> "/upload/url", imageUrl |-> imageUrl, fetched |-> fetched,
                   writeOk |-> writeOk],
                  uploadUrlHandler(disk, unlinks, imageUrl, fetched, nextId, writeOk),
                  1)

\* ------------------------------------------------ POST /upload-image
BlobPrefix == <<"b","l","o","b",":">>

\* the bytes read back from an uploaded file
FileData == <<65, 66, 67>>

\* `data:${file.mimetype};base64,${fileData.toString('base64')}`
EmbeddedImage(file) ==
  Str(DataPrefix \o file.mimetype \o Base64Marker \o Base64Encode(FileData))

uploadImageDataHandler(d, u, file, temp, readOk, image) ==
  IF file.present
  THEN IF ~readOk
       THEN \* fs.readFileSync throws: the catch answers, the cleanup is skipped
            Outcome(d, u, Response("/upload-image", 500, "Error processing image",
                                   NoBody, TRUE, {temp}, {}))
       ELSE LET c == cleanupTempFiles(d, u, temp)
            IN  Outcome(c.disk, c.unlinks,
                        Response("/upload-image", 200, "",
                                 [success |-> TRUE,
                                  imageData |-> EmbeddedImage(file)],
                                 TRUE, {temp}, {}))
  ELSE IF Falsy(image)
  THEN Outcome(d, u, Response("/upload-image", 400, "No image provided", NoBody,
                              TRUE, {}, {}))
  ELSE IF TypeOf(image) # "string"
  THEN \* imageData.startsWith is not a function
       Outcome(d, u, Response("/upload-image", 500, "Error processing image",
                              NoBody, TRUE, {}, {}))
  ELSE IF StartsWith(image.s, BlobPrefix)
  THEN Outcome(d, u, Response("/upload-image", 400,
                              "Blob URLs cannot be processed by the server",
                              NoBody, TRUE, {}, {}))
  ELSE IF isBase64(image)
  THEN Outcome(d, u, Response("/upload-image", 200, "",
                              [success |-> TRUE, imageData |-> image],
                              TRUE, {}, {}))
  ELSE Outcome(d, u, Response("/upload-image", 400, "Unsupported image format",
                              NoBody, TRUE, {}, {}))

\* the image field of the body of POST /upload-image
ImageFields ==
  {Undefined, Num(1), Str(BlobPrefix \o <<"x">>), Str(HttpPrefix \o <<"x">>),
   Str(DataImagePrefix \o <<"p","n","g">> \o Base64Marker \o <<"Q","U","J","D">>)}

UploadImageData ==
  /\ nreq < MaxRequests
  /\ \E file \in FileParts \cup {NoFile}, readOk \in BOOLEAN, image \in ImageFields :
         LET outcome == MulterOutcome(IF file.present THEN fileFilter(file) ELSE FALSE,
                                      file)
             ext  == IF file.present THEN ExtName(file.originalname) ELSE <<>>
             temp == FileAt(TempDir, "img_", nextId, ext)
             am   == MulterDisk(disk, unlinks, outcome, temp)
         IN  /\ outcome # "stored" => readOk      \* nothing is read otherwise
             /\ outcome # "nofile" => image = Undefined
             /\ Serve([ep |-> "/upload-image", file |-> file, readOk |-> readOk,
                       image |-> image],
                      ThroughMulter("/upload-image", outcome, am, temp,
                        uploadImageDataHandler(am.disk, am.unlinks, file, temp, readOk,
                                               image)),
                      1)

\* ------------------------------------------------------------- ObjectIds
HexDigit == Digit \cup {"a","b","c","d","e","f"} \cup {"A","B","C","D","E","F"}

\* /^[0-9a-fA-F]{24}$/.test(id)
IsObjectIdShape(id) ==
  Len(id) = 24 /\ \A k \in 1..Len(id) : id[k] \in HexDigit

UpperLetters ==
  <<"A","B","C","D","E","F","G","H","I","J","K","L","M",
    "N","O","P","Q","R","S","T","U","V","W","X","Y","Z">>
LowerLetters ==
  <<"a","b","c","d","e","f","g","h","i","j","k","l","m",
    "n","o","p","q","r","s","t","u","v","w","x","y","z">>

\* String.prototype.toLowerCase
toLowerCase(s) ==
  [k \in 1..Len(s) |->
     IF \E j \in 1..26 : UpperLetters[j] = s[k]
     THEN LowerLetters[CHOOSE j \in 1..26 : UpperLetters[j] = s[k]]
     ELSE s[k]]

\* the cast mongoose applies to an _id condition: a string of 24 hexadecimal
\* digits, read without regard to case, or any string of 12 characters;
\* every other string makes the query throw a CastError before it is sent
CastsToObjectId(id) == IsObjectIdShape(id) \/ Len(id) = 12

CastObjectId(id) == IF IsObjectIdShape(id) THEN toLowerCase(id) ELSE id

\* the id of the 24 digits c
Oid(c) == [k \in 1..24 |-> c]

\* the id the store gives the next new document
NewObjectId(docs) == Oid(LowerLetters[Cardinality(DOMAIN docs) + 1])

\* Model.findById(id): the cast fails, or the document or null is found
findById(docs, id) ==
  IF ~CastsToObjectId(id) THEN [threw |-> TRUE, found |-> FALSE]
  ELSE IF CastObjectId(id) \in DOMAIN docs
  THEN [threw |-> FALSE, found |-> TRUE, doc |-> docs[CastObjectId(id)]]
  ELSE [threw |-> FALSE, found |-> FALSE]

\* the number of lookups findById sends to the store
LookupsOf(id) == IF CastsToObjectId(id) THEN 1 ELSE 0

\* the ids a client may ask for
IdInputs ==
  {Oid("a"), Oid("A"), Oid("f"), Oid("g"),
   <<"s","e","a","r","c","h">>,
   <<"a","b","c","d","e","f","g","h","i","j","k","l">>}

\* ------------------------------------------------- serving a catalog request
\* the outcome of a catalog handler: the disk, the unlink counts, the
\* collection, the lookups it ran and the response
CatalogOutcome(d, u, docs, lookups, r) ==
  [disk |-> d, unlinks |-> u, products |-> docs, lookups |-> lookups, resp |-> r]

ServeCatalog(request, out, ids) ==
  /\ req' = request
  /\ resp' = out.resp
  /\ disk' = out.disk
  /\ unlinks' = out.unlinks
  /\ products' = out.products
  /\ queries' = queries + out.lookups
  /\ nextId' = nextId + ids
  /\ nreq' = nreq + 1
  /\ UNCHANGED <<orders, clock, proc>>

\* ------------------------------------------------ GET /products/:id
\* the handler of the category router, which checks the id first
getProductHandler(docs, id) ==
  IF ~IsObjectIdShape(id)
  THEN [lookups |-> 0,
        resp |-> Response("/products/:id", 400, "Invalid product ID format",
                          NoBody, TRUE, {}, {})]
  ELSE LET found == findById(docs, id)
       IN  IF found.threw
           THEN [lookups |-> LookupsOf(id),
                 resp |-> Response("/products/:id", 500, "Server error", NoBody,
                                   TRUE, {}, {})]
           ELSE IF ~found.found
           THEN [lookups |-> LookupsOf(id),
                 resp |-> Response("/products/:id", 404, "Product not found",
                                   NoBody, TRUE, {}, {})]
           ELSE [lookups |-> LookupsOf(id),
                 resp |-> Response("/products/:id", 200, "", found.doc, TRUE,
                                   {}, {})]

\* router.get('/:id') of the product router hands the id to findById as it
\* comes; the message of its 500 is that of the error
productRouterGetHandler(docs, id) ==
  LET found == findById(docs, id)
      ep    == "productRoutes /:id"
  IN  IF found.threw
      THEN [lookups |-> LookupsOf(id),
            resp |-> Response(ep, 500, "Cast to ObjectId failed", NoBody, TRUE,
                              {}, {})]
      ELSE IF ~found.found
      THEN [lookups |-> LookupsOf(id),
            resp |-> Response(ep, 404, "Product not found", NoBody, TRUE, {}, {})]
      ELSE [lookups |-> LookupsOf(id),
            resp |-> Response(ep, 200, "", found.doc, TRUE, {}, {})]

\* router.get('/products/:id') of the men-women-kids router does the same
menWomenKidsGetHandler(docs, id) ==
  LET found == findById(docs, id)
      ep    == "menwomenkids /products/:id"
  IN  IF found.threw
      THEN [lookups |-> LookupsOf(id),
            resp |-> Response(ep, 500, "Server error", NoBody, TRUE, {}, {})]
      ELSE IF ~found.found
      THEN [lookups |-> LookupsOf(id),
            resp |-> Response(ep, 404, "Product not found", NoBody, TRUE, {}, {})]
      ELSE [lookups |-> LookupsOf(id),
            resp |-> Response(ep, 200, "", found.doc, TRUE, {}, {})]

PlaceholderPrefix ==
  <<"/","a","p","i","/","p","l","a","c","e","h","o","l","d","e","r","/">>

\* "/api/placeholder/400/400"
Placeholder == Str(PlaceholderPrefix \o <<"4","0","0","/","4","0","0">>)

\* processImageArray without .slice(0, maxImages)
processImageArrayUncapped(imagesArray, maxImages) ==
  LET valid == SelectSeq(imagesArray,
                 LAMBDA img : isBase64(img) \/ StartsWith(img.s, PlaceholderPrefix))
  IN  IF Len(valid) = 0 THEN <<Placeholder>> ELSE valid

\* processImageArray(imagesArray, maxImages): the images that are image
\* data-URIs or placeholders, at most maxImages of them, or one placeholder
processImageArray(imagesArray, maxImages) ==
  LET valid == SelectSeq(imagesArray,
                 LAMBDA img : isBase64(img) \/ StartsWith(img.s, PlaceholderPrefix))
      kept  == SubSeq(valid, 1, IF Len(valid) < maxImages THEN Len(valid)
                                ELSE maxImages)
  IN  IF Len(kept) = 0 THEN <<Placeholder>> ELSE kept

NoneOption == <<"n","o","n","e">>

\* (product.customOption || 'none').toLowerCase()
customizationTypeOf(doc) ==
  toLowerCase(IF Falsy(doc.customOption) THEN NoneOption ELSE doc.customOption.s)

\* router.get('/products/:id') of the custom router
customGetHandler(docs, id) ==
  LET found == findById(docs, id)
      ep    == "custom /products/:id"
  IN  IF found.threw
      THEN [lookups |-> LookupsOf(id),
            resp |-> Response(ep, 500, "Failed to fetch product details", NoBody,
                              TRUE, {}, {})]
      ELSE IF ~found.found
      THEN [lookups |-> LookupsOf(id),
            resp |-> Response(ep, 404, "Product not found", NoBody, TRUE, {}, {})]
      ELSE LET processedImages == processImageArray(found.doc.images, 4)
           IN  [lookups |-> LookupsOf(id),
                resp |-> Response(ep, 200, "",
                           [success |-> TRUE,
                            product |-> [images |-> processedImages,
                                         customOption |-> found.doc.customOption,
                                         mainImage |-> processedImages[1],
                                         customizationType |->
                                           customizationTypeOf(found.doc)]],
                           TRUE, {}, {})]

\* a read-only request to the catalog
ReadCatalog(request, got) ==
  ServeCatalog(request,
               CatalogOutcome(disk, unlinks, products, got.lookups, got.resp), 0)

GetProduct ==
  /\ nreq < MaxRequests
  /\ \E id \in IdInputs :
         ReadCatalog([ep |-> "/products/:id", id |-> id],
                     getProductHandler(products, id))

ProductRouterGet ==
  /\ nreq < MaxRequests
  /\ \E id \in IdInputs :
         ReadCatalog([ep |-> "productRoutes /:id", id |-> id],
                     productRouterGetHandler(products, id))

MenWomenKidsGet ==
  /\ nreq < MaxRequests
  /\ \E id \in IdInputs :
         ReadCatalog([ep |-> "menwomenkids /products/:id", id |-> id],
                     menWomenKidsGetHandler(products, id))

CustomGet ==
  /\ nreq < MaxRequests
  /\ \E id \in IdInputs :
         ReadCatalog([ep |-> "custom /products/:id", id |-> id],
                     customGetHandler(products, id))

\* ------------------------------------------- upload.array('productImages', 5)
\* the most files one request may carry in the field
ArrayMaxCount == 5

\* the temporary file of the k-th file of a request
ArrayTemp(files, firstId, k) ==
  FileAt(TempDir, "img", firstId + k - 1, ExtName(files[k].originalname))

\* the first file multer refuses, 0 when it stores them all: the file filter
\* refuses it, it passes the size limit, or it is one file too many
FirstRefused(files) ==
  LET refused == {k \in 1..Len(files) :
                    \/ MulterOutcome(fileFilter(files[k]), files[k]) # "stored"
                    \/ k > ArrayMaxCount}
  IN  IF refused = {} THEN 0
      ELSE CHOOSE k \in refused : \A j \in refused : k <= j

\* multer over the files of the field: it stores them in order; at the first
\* file it refuses it removes the files stored so far, and the part of the
\* refused one it had written, and passes the error on
MulterArray(d, u, files, firstId) ==
  LET k == FirstRefused(files)
      partial == k # 0 /\ k <= ArrayMaxCount
                 /\ MulterOutcome(fileFilter(files[k]), files[k]) = "toolarge"
      created == IF k = 0 THEN {ArrayTemp(files, firstId, j) : j \in 1..Len(files)}
                 ELSE {ArrayTemp(files, firstId, j) :
                         j \in 1..(IF partial THEN k ELSE k - 1)}
  IN  IF k = 0
      THEN [failed |-> FALSE, disk |-> d \cup created, unlinks |-> u,
            temps |-> created]
      ELSE [failed |-> TRUE, disk |-> d,
            unlinks |-> [f \in created \cup DOMAIN u |->
                           UnlinkCount(u, f) + (IF f \in created THEN 1 ELSE 0)],
            temps |-> created]

\* the loop over req.files: each file is read, embedded and then cleaned up;
\* readFail is the index of the file whose read throws, 0 when none does
RECURSIVE ReadFiles(_, _, _, _, _, _, _)
ReadFiles(d, u, files, firstId, k, readFail, imagesList) ==
  IF k > Len(files)
  THEN [threw |-> FALSE, disk |-> d, unlinks |-> u, images |-> imagesList]
  ELSE IF k = readFail
  THEN [threw |-> TRUE, disk |-> d, unlinks |-> u, images |-> imagesList]
  ELSE LET c == cleanupTempFiles(d, u, ArrayTemp(files, firstId, k))
       IN  ReadFiles(c.disk, c.unlinks, files, firstId, k + 1, readFail,
                     Append(imagesList, EmbeddedImage(files[k])))

\* the images of the body that are image data-URIs
Base64Only(images) == SelectSeq(images, isBase64)

\* the fields of a document the product schema keeps; customizationType is
\* not one of them
Stored(images, customOption) ==
  [images |-> images,
   customOption |-> IF customOption = Undefined THEN Str(<<>>) ELSE customOption]

\* ------------------------------------------------ POST /products
\* the handler body, after multer: data is the productData field
customPostHandler(d, u, docs, files, firstId, temps, data, readFail, saveOk) ==
  LET ep == "POST /products"
      failure(dd, uu) ==
        CatalogOutcome(dd, uu, docs, 0,
                       Response(ep, 500, "Failed to add product", NoBody, TRUE,
                                temps, {}))
  IN  IF data.json # "valid"
      THEN \* JSON.parse throws before any file is read
           failure(d, u)
      ELSE LET read == ReadFiles(d, u, files, firstId, 1, readFail, <<>>)
           IN  IF read.threw THEN failure(read.disk, read.unlinks)
               ELSE IF ~Falsy(data.customOption)
                       /\ TypeOf(data.customOption) # "string"
               THEN \* customOption.toLowerCase is not a function
                    failure(read.disk, read.unlinks)
               ELSE IF ~saveOk THEN failure(read.disk, read.unlinks)
               ELSE LET doc == Stored(read.images \o Base64Only(data.images),
                                      data.customOption)
                        id  == NewObjectId(docs)
                    IN  CatalogOutcome(read.disk, read.unlinks,
                          (id :> doc) @@ docs, 0,
                          Response(ep, 201, "Product added successfully",
                                   [success |-> TRUE, product |-> doc],
                                   TRUE, temps, {}))

\* a route registered with upload.array: an error of multer goes to
\* next(err), otherwise the handler answers
ThroughMulterArray(ep, docs, multer, handled) ==
  IF multer.failed
  THEN CatalogOutcome(multer.disk, multer.unlinks, docs, 0,
                      ErrorMiddleware(ep, multer.temps))
  ELSE handled

\* ------------------------------------------------ PUT /products/:id
\* imagesList.filter((img, index) => !deleteImages.includes(index))
WithoutIndexes(imagesList, deleteImages) ==
  LET keep == {k \in 1..Len(imagesList) : (k - 1) \notin deleteImages}
      RECURSIVE Pick(_)
      Pick(k) == IF k > Len(imagesList) THEN <<>>
                 ELSE IF k \in keep THEN <<imagesList[k]>> \o Pick(k + 1)
                 ELSE Pick(k + 1)
  IN  Pick(1)

customPutHandler(d, u, docs, id, files, firstId, temps, data, readFail, saveOk) ==
  LET ep == "PUT /products/:id"
      found == findById(docs, id)
      failure(dd, uu, lookups) ==
        CatalogOutcome(dd, uu, docs, lookups,
                       Response(ep, 500, "Failed to update product", NoBody, TRUE,
                                temps, {}))
  IN  IF found.threw THEN failure(d, u, 0)
      ELSE IF ~found.found
      THEN CatalogOutcome(d, u, docs, 1,
                          Response(ep, 404, "Product not found", NoBody, TRUE,
                                   temps, {}))
      ELSE IF data.json = "invalid" THEN failure(d, u, 1)
      ELSE LET read == ReadFiles(d, u, files, firstId, 1, readFail,
                                 found.doc.images)
               imagesList == read.images \o Base64Only(data.newImages)
               images == IF data.deleteImages # {}
                         THEN WithoutIndexes(imagesList, data.deleteImages)
                         ELSE imagesList
           IN  IF read.threw THEN failure(read.disk, read.unlinks, 1)
               ELSE IF ~Falsy(data.customOption)
                       /\ TypeOf(data.customOption) # "string"
               THEN failure(read.disk, read.unlinks, 1)
               ELSE IF ~saveOk THEN failure(read.disk, read.unlinks, 2)
               ELSE LET doc == Stored(images,
                                 IF data.customOption = Undefined
                                 THEN found.doc.customOption
                                 ELSE data.customOption)
                    IN  CatalogOutcome(read.disk, read.unlinks,
                          (CastObjectId(id) :> doc) @@ docs, 2,
                          Response(ep, 200, "Product updated successfully",
                                   [success |-> TRUE, product |-> doc],
                                   TRUE, temps, {}))

\* the files a client may send in the field productImages: one that is
\* stored, one that is not an image and one past the size limit
StoredPart ==
  FilePart(<<"i","m","a","g","e","/","p","n","g">>, <<"a",".","p","n","g">>,
           FileSizeLimit)
TextPart ==
  FilePart(<<"t","e","x","t","/","p","l","a","i","n">>, <<"a",".","t","x","t">>,
           FileSizeLimit)
OversizePart ==
  FilePart(<<"i","m","a","g","e","/","p","n","g">>, <<"a",".","p","n","g">>,
           FileSizeLimit + 1)

FileLists ==
  {<<>>, <<StoredPart>>, <<StoredPart, StoredPart>>, <<StoredPart, TextPart>>,
   <<StoredPart, OversizePart>>, <<TextPart>>, <<OversizePart>>}

GoodImage ==
  Str(DataImagePrefix \o <<"p","n","g">> \o Base64Marker \o <<"Q","U","J","D">>)
BadImage == Str(HttpPrefix \o <<"x",".","p","n","g">>)

ImageLists == {<<>>, <<BadImage, GoodImage>>}

\* the productData field: missing, not JSON, or an object with these members
\* (a member that is absent is empty or undefined)
MissingData ==
  [json |-> "missing", images |-> <<>>, newImages |-> <<>>, deleteImages |-> {},
   customOption |-> Undefined]

\* the objects a client may send as productData
ValidDatas ==
  {[json |-> "valid", images |-> i, newImages |-> n, deleteImages |-> x,
    customOption |-> c] :
     i \in ImageLists, n \in ImageLists, x \in {{}, {0}, {1, 5}},
     c \in {Undefined, Str(<<"I","m","a","g","e">>), Num(1)}}

\* POST /products reads images and customOption only
PostDatas ==
  {MissingData, [MissingData EXCEPT !.json = "invalid"]}
    \cup {v \in ValidDatas : v.newImages = <<>> /\ v.deleteImages = {}}

\* PUT /products/:id overwrites images
PutDatas ==
  {MissingData, [MissingData EXCEPT !.json = "invalid"]}
    \cup {v \in ValidDatas : v.images = <<>>}

\* the inputs that cannot matter are fixed: the body when multer fails, the
\* failing read when nothing is read, the save when nothing is saved
CustomPostProducts ==
  /\ nreq < MaxRequests
  /\ \E files \in FileLists :
         LET multer == MulterArray(disk, unlinks, files, nextId)
         IN  \E data \in IF multer.failed THEN {MissingData} ELSE PostDatas :
               LET parsed == ~multer.failed /\ data.json = "valid"
               IN  \E readFail \in IF parsed THEN 0..Len(files) ELSE {0} :
                     \E saveOk \in IF parsed /\ readFail = 0
                                      /\ data.customOption # Num(1)
                                   THEN BOOLEAN ELSE {TRUE} :
                       ServeCatalog(
                         [ep |-> "POST /products", files |-> files, data |-> data,
                          readFail |-> readFail, saveOk |-> saveOk],
                         ThroughMulterArray("POST /products", products, multer,
                           customPostHandler(multer.disk, multer.unlinks, products,
                                             files, nextId, multer.temps, data,
                                             readFail, saveOk)),
                         Len(files))

CustomPutProduct ==
  /\ nreq < MaxRequests
  /\ \E id \in IdInputs, files \in FileLists :
         LET multer == MulterArray(disk, unlinks, files, nextId)
             found  == ~multer.failed /\ findById(products, id).found
         IN  \E data \in IF found THEN PutDatas ELSE {MissingData} :
               LET parsed == found /\ data.json # "invalid"
               IN  \E readFail \in IF parsed THEN 0..Len(files) ELSE {0} :
                     \E saveOk \in IF parsed /\ readFail = 0
                                      /\ data.customOption # Num(1)
                                   THEN BOOLEAN ELSE {TRUE} :
                       ServeCatalog(
                         [ep |-> "PUT /products/:id", id |-> id, files |-> files,
                          data |-> data, readFail |-> readFail, saveOk |-> saveOk],
                         ThroughMulterArray("PUT /products/:id", products, multer,
                           customPutHandler(multer.disk, multer.unlinks, products, id,
                                            files, nextId, multer.temps, data,
                                            readFail, saveOk)),
                         Len(files))

\* ------------------------------------------------ the other POST routes
\* the body of a POST to the routers that take JSON
ProductBody(images, imageData, imagesData) ==
  [images |-> images, imageData |-> imageData, imagesData |-> imagesData,
   customOption |-> Undefined]

\* router.post('/') of the product router: when images is not empty its
\* entries are kept if isBase64 accepts them; img.substring throws for a
\* refused entry that is no string
productRouterPostHandler(d, u, docs, data, saveOk) ==
  LET ep == "productRoutes POST /"
      refusedNoString == \E k \in 1..Len(data.images) :
                           /\ ~isBase64(data.images[k])
                           /\ TypeOf(data.images[k]) # "string"
      doc == Stored(Base64Only(data.images), data.customOption)
      id  == NewObjectId(docs)
  IN  IF refusedNoString \/ ~saveOk
      THEN CatalogOutcome(d, u, docs, 0,
                          Response(ep, 400, "error", NoBody, TRUE, {}, {}))
      ELSE CatalogOutcome(d, u, (id :> doc) @@ docs, 0,
                          Response(ep, 201, "", doc, TRUE, {}, {}))

\* the loop over imagesData: an entry isBase64 accepts is written under the
\* next suffix and its URL kept; writeFail is the position, among the writes,
\* of the one that fails, 0 for none
RECURSIVE saveImages(_, _, _, _, _)
saveImages(d, list, uniqueId, writeFail, urls) ==
  IF list = <<>> THEN [threw |-> FALSE, disk |-> d, urls |-> urls]
  ELSE IF ~isBase64(Head(list))
  THEN saveImages(d, Tail(list), uniqueId, writeFail, urls)
  ELSE LET result == saveBase64Image(Head(list).s, uniqueId, writeFail # 1)
       IN  IF result.rejected THEN [threw |-> TRUE, disk |-> d, urls |-> urls]
           ELSE saveImages(d \cup {result.fileName}, Tail(list), uniqueId + 1,
                           writeFail - 1, urls \o <<result.url>>)

\* the entries of the body that are written to files, in the order of writing
WrittenImages(data) ==
  (IF ~Falsy(data.imageData) /\ isBase64(data.imageData)
   THEN <<data.imageData>> ELSE <<>>)
    \o (IF ~Falsy(data.imagesData) /\ IsArray(data.imagesData)
        THEN Base64Only(data.imagesData.a) ELSE <<>>)

\* router.post('/products') of the category router: imageData and imagesData
\* are written to files and replaced by imageUrl and imageUrls, which the
\* schema does not keep; images goes to new Product() as it comes
postProductsHandler(d, u, docs, data, firstId, writeFail, saveOk) ==
  LET ep == "category POST /products"
      saved == saveImages(d, WrittenImages(data), firstId, writeFail, <<>>)
      doc == Stored(data.images, data.customOption)
      id  == NewObjectId(docs)
  IN  IF saved.threw \/ ~saveOk
      THEN CatalogOutcome(saved.disk, u, docs, 0,
                          Response(ep, 500, "Server error", NoBody, TRUE, {},
                                   saved.disk \ d))
      ELSE CatalogOutcome(saved.disk, u, (id :> doc) @@ docs, 0,
                          Response(ep, 201, "", doc, TRUE, {}, saved.disk \ d))

\* the bodies posted: images alone, or image data to write
ProductBodies ==
  {ProductBody(i, Undefined, Undefined) : i \in ImageLists \cup {<<Num(1)>>}}
    \cup {ProductBody(<<>>, x, y) :
            x \in {Undefined, GoodImage, BadImage},
            y \in {Undefined, Arr(<<BadImage, GoodImage>>),
                   Str(<<"Q","U","J","D">>)}}

ProductRouterPost ==
  /\ nreq < MaxRequests
  /\ \E data \in {b \in ProductBodies : Falsy(b.imageData) /\ Falsy(b.imagesData)},
        saveOk \in BOOLEAN :
       ServeCatalog([ep |-> "productRoutes POST /", data |-> data,
                     saveOk |-> saveOk],
                    productRouterPostHandler(disk, unlinks, products, data, saveOk),
                    0)

\* a suffix is drawn for each call of saveBase64Image; the entries of images
\* posted here are strings, which the schema keeps as they are
PostProducts ==
  /\ nreq < MaxRequests
  /\ \E data \in {b \in ProductBodies :
                   \A k \in 1..Len(b.images) : TypeOf(b.images[k]) = "string"} :
     \E writeFail \in 0..Len(WrittenImages(data)) :
     \E saveOk \in IF writeFail = 0 THEN BOOLEAN ELSE {TRUE} :
       LET saved == saveImages(disk, WrittenImages(data), nextId, writeFail, <<>>)
       IN  ServeCatalog([ep |-> "category POST /products", data |-> data,
                         writeFail |-> writeFail, saveOk |-> saveOk],
                        postProductsHandler(disk, unlinks, products, data, nextId,
                                            writeFail, saveOk),
                        Len(saved.urls) + (IF saved.threw THEN 1 ELSE 0))

\* ------------------------------------------- specification of the catalog
InitCatalog ==
  /\ FreshServer
  /\ products = <<>>
  /\ req = NoReq
  /\ resp = NoResp

NextCatalog ==
  \/ CustomPostProducts
  \/ CustomPutProduct
  \/ ProductRouterPost
  \/ PostProducts
  \/ UploadImageData
  \/ GetProduct
  \/ ProductRouterGet
  \/ MenWomenKidsGet
  \/ CustomGet

SpecCatalog == InitCatalog /\ [][NextCatalog]_vars

\* ------------------------------------------------------ numbers and strings
DigitSeq == <<"0","1","2","3","4","5","6","7","8","9">>

DigitValue(c) == (CHOOSE k \in 1..10 : DigitSeq[k] = c) - 1

\* the number written by the digits s[i..j-1]
RECURSIVE DecimalValue(_, _, _)
DecimalValue(s, i, j) ==
  IF j <= i THEN 0 ELSE DecimalValue(s, i, j - 1) * 10 + DigitValue(s[j - 1])

\* the digits of a natural number
RECURSIVE DecimalString(_)
DecimalString(n) ==
  IF n < 10 THEN <<DigitSeq[n + 1]>>
  ELSE DecimalString(n \div 10) \o <<DigitSeq[(n % 10) + 1]>>

\* String(v); the numbers of the model are integers
StringOf(v) ==
  CASE v.t = "undefined" -> <<"u","n","d","e","f","i","n","e","d">>
    [] v.t = "string"    -> v.s
    [] v.t = "number"    -> IF v.n < 0 THEN <<"-">> \o DecimalString(-v.n)
                            ELSE DecimalString(v.n)
    [] v.t = "boolean"   -> IF v.b THEN <<"t","r","u","e">>
                            ELSE <<"f","a","l","s","e">>
    [] v.t = "object"    -> IF v.null THEN <<"n","u","l","l">>
                            ELSE <<"[","o","b","j","e","c","t","]">>

NaN == [nan |-> TRUE]
Finite(n) == [nan |-> FALSE, n |-> n]

\* parseFloat(s) in hundredths, for a string without exponent that carries
\* at most two decimals: an optional sign, digits, and a fraction; NaN when
\* no digit is read
parseFloat(s) ==
  LET signed  == Len(s) >= 1 /\ s[1] \in {"-", "+"}
      first   == IF signed THEN 2 ELSE 1
      intEnd  == RunEnd(s, first, Digit)
      hasDot  == intEnd <= Len(s) /\ s[intEnd] = "."
      fracEnd == IF hasDot THEN RunEnd(s, intEnd + 1, Digit) ELSE intEnd
      nFrac   == IF hasDot THEN fracEnd - intEnd - 1 ELSE 0
      tenths  == IF nFrac >= 1 THEN DigitValue(s[intEnd + 1]) ELSE 0
      hundredths == IF nFrac >= 2 THEN DigitValue(s[intEnd + 2]) ELSE 0
      size    == DecimalValue(s, first, intEnd) * 100 + tenths * 10 + hundredths
  IN  IF intEnd = first /\ nFrac = 0 THEN NaN
      ELSE Finite(IF signed /\ s[1] = "-" THEN -size ELSE size)

\* parseInt(v) for a value whose string has no radix prefix: leading blanks,
\* an optional sign and digits; NaN when no digit is read
parseInt(v) ==
  LET s      == StringOf(v)
      start  == RunEnd(s, 1, {" "})
      signed == start <= Len(s) /\ s[start] \in {"-", "+"}
      first  == IF signed THEN start + 1 ELSE start
      intEnd == RunEnd(s, first, Digit)
      size   == DecimalValue(s, first, intEnd)
  IN  IF intEnd = first THEN NaN
      ELSE Finite(IF signed /\ s[start] = "-" THEN -size ELSE size)

\* x || d for a number x
OrElse(x, d) == IF x.nan \/ x.n = 0 THEN d ELSE x.n

\* n.toFixed(2) of an amount in hundredths
toFixed2(cents) ==
  LET size == IF cents < 0 THEN -cents ELSE cents
  IN  (IF cents < 0 THEN <<"-">> ELSE <<>>)
        \o DecimalString(size \div 100)
        \o <<".", DigitSeq[((size % 100) \div 10) + 1], DigitSeq[(size % 10) + 1]>>

\* ------------------------------------------------------------ POST /orders
\* a line item the client sends
Item(price, quantity) ==
  [t |-> "object", null |-> FALSE, array |-> FALSE, price |-> price,
   quantity |-> quantity]

\* String(item.price || 0).replace(/[^\d.-]/g, '')
priceString(item) ==
  SelectSeq(StringOf(IF Falsy(item.price) THEN Num(0) ELSE item.price),
            LAMBDA c : c \in Digit \cup {".", "-"})

\* the price of a line in hundredths and its quantity
priceOf(item)    == OrElse(parseFloat(priceString(item)), 0)
quantityOf(item) == OrElse(parseInt(item.quantity), 1)

\* the currency sign that opens the total of a line
CurrencySign == "rupee"

\* the line with a total that leaves the quantity out
processItemUnitTotal(item) ==
  [price |-> priceOf(item), quantity |-> quantityOf(item),
   total |-> <<CurrencySign, " ">> \o toFixed2(priceOf(item))]

\* the line the map callback returns for an item
processItem(item) ==
  [price |-> priceOf(item), quantity |-> quantityOf(item),
   total |-> <<CurrencySign, " ">> \o toFixed2(priceOf(item) * quantityOf(item))]

\* totalAmount after the map, in hundredths
RECURSIVE totalAmountOf(_)
totalAmountOf(items) ==
  IF items = <<>> THEN 0
  ELSE priceOf(Head(items)) * quantityOf(Head(items)) + totalAmountOf(Tail(items))

EmptyObject == [t |-> "object", null |-> FALSE, array |-> FALSE]

\* the id of the k-th order saved
OrderId(k) == Oid(LowerLetters[k])

\* the order built with the status the body asks for
newOrderOfBodyStatus(body, now) ==
  [orderData |-> [k \in 1..Len(body.orderData.a) |->
                    processItem(body.orderData.a[k])],
   orderSummary |-> IF Falsy(body.orderSummary) THEN EmptyObject
                    ELSE body.orderSummary,
   customerDetails |-> IF Falsy(body.customerDetails) THEN EmptyObject
                       ELSE body.customerDetails,
   paymentDetails |-> IF Falsy(body.paymentDetails) THEN EmptyObject
                      ELSE body.paymentDetails,
   totalAmount |-> totalAmountOf(body.orderData.a),
   status |-> IF Falsy(body.status) THEN "Pending" ELSE body.status.s,
   createdAt |-> now]

\* new Order({...}) of the processed lines
newOrderOf(body, now) ==
  [orderData |-> [k \in 1..Len(body.orderData.a) |->
                    processItem(body.orderData.a[k])],
   orderSummary |-> IF Falsy(body.orderSummary) THEN EmptyObject
                    ELSE body.orderSummary,
   customerDetails |-> IF Falsy(body.customerDetails) THEN EmptyObject
                       ELSE body.customerDetails,
   paymentDetails |-> IF Falsy(body.paymentDetails) THEN EmptyObject
                      ELSE body.paymentDetails,
   totalAmount |-> totalAmountOf(body.orderData.a),
   status |-> "Pending",
   createdAt |-> now]

\* everything after the validation of orderData: the lines are processed,
\* the order is built and saved; save is what newOrder.save() does
buildAndSave(stored, body, save, now) ==
  LET items == body.orderData.a
      ep    == "POST /orders"
  IN  IF \E k \in 1..Len(items) : items[k] \in {Null, Undefined}
      THEN \* item.price of null throws a TypeError
           [orders |-> stored,
            resp |-> Response(ep, 500, "Error saving order", NoBody, TRUE, {}, {})]
      ELSE CASE save = "saved" ->
                  [orders |-> Append(stored, newOrderOf(body, now)),
                   resp |-> Response(ep, 201, "Order saved successfully",
                                     [success |-> TRUE,
                                      orderId |-> OrderId(Len(stored) + 1)],
                                     TRUE, {}, {})]
             [] save = "ValidationError" ->
                  [orders |-> stored,
                   resp |-> Response(ep, 400, "Validation error", NoBody, TRUE,
                                     {}, {})]
             [] OTHER ->
                  [orders |-> stored,
                   resp |-> Response(ep, 500, "Error saving order", NoBody,
                                     TRUE, {}, {})]

\* the handler with the emptiness test of the validation left out
postOrdersHandlerEmptyAllowed(stored, body, save, now) ==
  IF Falsy(body.orderData) \/ ~IsArray(body.orderData)
  THEN [orders |-> stored,
        resp |-> Response("POST /orders", 400,
                          "Order data is required and must be an array", NoBody,
                          TRUE, {}, {})]
  ELSE buildAndSave(stored, body, save, now)

\* router.post('/orders'): stored is the order collection, body the request
\* body, save the outcome of newOrder.save(), now the time of the request
postOrdersHandler(stored, body, save, now) ==
  IF Falsy(body.orderData) \/ ~IsArray(body.orderData)
     \/ Len(body.orderData.a) = 0
  THEN [orders |-> stored,
        resp |-> Response("POST /orders", 400,
                          "Order data is required and must be an array", NoBody,
                          TRUE, {}, {})]
  ELSE buildAndSave(stored, body, save, now)

\* the orderData a client may send
OrderDatas ==
  {Undefined, Null, Str(<<"x">>), Num(1), Obj, Arr(<<>>),
   Arr(<<Item(Str(<<"1",",","0","0","0",".","0","0">>), Num(2)),
         Item(Num(500), Str(<<"1">>))>>),
   Arr(<<Item(Str(<<"-","5">>), Str(<<"-","3">>))>>),
   Arr(<<Item(Undefined, Str(<<"a","b","c">>))>>),
   Arr(<<Item(Str(<<"2",".","5","0">>), Num(0))>>),
   Arr(<<Null>>)}

\* customerDetails with an email
Customer(email) ==
  [t |-> "object", null |-> FALSE, array |-> FALSE, email |-> email]

CustomerDetails == {Undefined, Customer("a@x")}

\* a status member of the body, which the handler does not read
BodyStatuses == {Undefined, Str(<<"S","h","i","p","p","e","d">>)}

SaveOutcomes == {"saved", "ValidationError", "MongoError"}

\* the save is reached only by a non-empty array of items
ReachesSave(orderData) ==
  /\ IsArray(orderData)
  /\ Len(orderData.a) > 0
  /\ \A k \in 1..Len(orderData.a) : orderData.a[k] \notin {Null, Undefined}

\* POST /orders with the members of the body drawn from the given sets, at
\* a time of times that is not before the clock
PostOrdersFrom(datas, customers, statuses, saves, times) ==
  /\ nreq < MaxRequests
  /\ \E orderData \in datas, customer \in customers, status \in statuses,
        at \in {t \in times : t >= clock} :
       \E save \in IF ReachesSave(orderData) THEN saves ELSE {"saved"} :
         LET body == [orderData |-> orderData, orderSummary |-> Undefined,
                      customerDetails |-> customer, paymentDetails |-> Undefined,
                      status |-> status]
             out  == postOrdersHandler(orders, body, save, at)
         IN  /\ req' = [ep |-> "POST /orders", orderData |-> orderData,
                        customerDetails |-> customer, status |-> status,
                        save |-> save, at |-> at]
             /\ resp' = out.resp
             /\ orders' = out.orders
             /\ nreq' = nreq + 1
             /\ clock' = at
             /\ UNCHANGED <<disk, unlinks, nextId, products, queries, proc>>

PostOrders ==
  PostOrdersFrom(OrderDatas, CustomerDetails, BodyStatuses, SaveOutcomes, {clock})

\* --------------------------------------------- specification of the orders
InitOrders ==
  /\ FreshServer
  /\ products = <<>>
  /\ req = NoReq
  /\ resp = NoResp

NextOrders == PostOrders

SpecOrders == InitOrders /\ [][NextOrders]_vars

\* ------------------------------------------------------------- calendar
\* the instants of a month: the first day at 00:00, the last day at 00:00
\* and a later instant of the last day
TicksPerMonth == 3

\* new Date(year, month, 1) for the month of t
firstDayOf(month) == month * TicksPerMonth

\* new Date(year, month + 1, 0): the last day of the month, at 00:00
lastDayOf(month) == month * TicksPerMonth + 1

\* currentDate.getMonth(), counted from the month of instant 0
MonthOf(t) == t \div TicksPerMonth

\* ------------------------------------------------------------- routing
\* a path is the sequence of its segments; a layer of a router is the
\* pattern of a route and the handler registered for it
Route(pattern, handler) == [pattern |-> pattern, handler |-> handler]

\* ':name' in a pattern stands for any one segment
IsParam(segment) == segment # <<>> /\ segment[1] = ":"

matchesPath(pattern, path) ==
  /\ Len(pattern) = Len(path)
  /\ \A i \in 1..Len(path) : IsParam(pattern[i]) \/ pattern[i] = path[i]

\* the GET routes of routes/productRoutes.js, in the order of registration
productRoutes ==
  <<Route(<<>>,
          "productRoutes /"),
    Route(<<<<":","i","d">>>>,
          "productRoutes /:id")>>

\* the GET routes of the category router, in the order of registration
categoryRoutes ==
  <<Route(<<<<"p","r","o","d","u","c","t","s">>, <<"s","e","a","r","c","h">>>>,
          "GET /products/search"),
    Route(<<<<"p","r","o","d","u","c","t","s">>, <<":","i","d">>>>,
          "GET /products/:id"),
    Route(<<<<"p","r","o","d","u","c","t","s">>>>,
          "GET /products"),
    Route(<<<<"p","r","o","d","u","c","t","s">>, <<"c","a","t","e","g","o","r","y">>, <<"m","e","n">>>>,
          "GET /products/category/men"),
    Route(<<<<"p","r","o","d","u","c","t","s">>, <<"c","a","t","e","g","o","r","y">>, <<"w","o","m","e","n">>>>,
          "GET /products/category/women"),
    Route(<<<<"p","r","o","d","u","c","t","s">>, <<"c","a","t","e","g","o","r","y">>, <<"k","i","d","s">>>>,
          "GET /products/category/kids"),
    Route(<<<<"p","r","o","d","u","c","t","s">>, <<"c","a","t","e","g","o","r","y">>, <<"u","n","i","s","e","x">>>>,
          "GET /products/category/unisex"),
    Route(<<<<"p","r","o","d","u","c","t","s">>, <<"c","a","t","e","g","o","r","y">>, <<"c","o","u","p","l","e","s">>>>,
          "GET /products/category/couples"),
    Route(<<<<"t","e","s","t">>>>,
          "GET /test"),
    Route(<<<<"d","i","a","g","n","o","s","t","i","c">>>>,
          "GET /diagnostic")>>

\* the GET routes of the order router, in the order of registration
orderRoutes ==
  <<Route(<<<<"f","i","l","e","s">>, <<":","f","i","l","e","n","a","m","e">>>>,
          "GET /files/:filename"),
    Route(<<<<"o","r","d","e","r","s">>>>,
          "GET /orders"),
    Route(<<<<"o","r","d","e","r","s">>, <<":","i","d">>>>,
          "GET /orders/:id")>>

\* the GET routes of the dashboard router, in the order of registration
dashRoutes ==
  <<Route(<<<<"o","r","d","e","r","s">>, <<"r","e","c","e","n","t">>>>,
          "GET /orders/recent"),
    Route(<<<<"d","a","s","h","b","o","a","r","d">>, <<"s","u","m","m","a","r","y">>>>,
          "GET /dashboard/summary")>>

\* router.use(prefix, router) of routes/index.js, in its order, for the
\* routers whose routes are known
Mounts ==
  <<[prefix |-> <<<<"p","r","o","d","u","c","t","s">>>>, router |-> productRoutes],
    [prefix |-> <<>>, router |-> categoryRoutes],
    [prefix |-> <<>>, router |-> orderRoutes],
    [prefix |-> <<>>, router |-> dashRoutes]>>

\* the handler a GET of the path below /api runs: the routers are tried in
\* the order of their mounting, each without its prefix, and the routes of a
\* router in the order of their registration; no handler passes the request
\* on, and a path no route matches falls to the 404 middleware
dispatch(path) ==
  LET below(m) == SubSeq(path, Len(Mounts[m].prefix) + 1, Len(path))
      layers == UNION {{<<m, r>> : r \in 1..Len(Mounts[m].router)} :
                         m \in 1..Len(Mounts)}
      hits == {h \in layers :
                 /\ Len(Mounts[h[1]].prefix) <= Len(path)
                 /\ SubSeq(path, 1, Len(Mounts[h[1]].prefix)) = Mounts[h[1]].prefix
                 /\ matchesPath(Mounts[h[1]].router[h[2]].pattern, below(h[1]))}
      first == CHOOSE h \in hits : \A g \in hits :
                 h[1] < g[1] \/ (h[1] = g[1] /\ h[2] <= g[2])
      route == Mounts[first[1]].router[first[2]]
  IN  IF hits = {} THEN [handler |-> "404", params |-> <<>>]
      ELSE [handler |-> route.handler,
            params |-> SelectSeq([i \in 1..Len(route.pattern) |->
                                    IF IsParam(route.pattern[i])
                                    THEN <<below(first[1])[i]>> ELSE <<>>],
                                 LAMBDA p : p # <<>>)]

\* app.use((req, res, next) => res.status(404)...)
notFoundHandler ==
  Response("404", 404, "API endpoint not found", NoBody, TRUE, {}, {})

\* ------------------------------------------------------ reading the orders
\* Order.find().sort({ createdAt: -1 }): the orders, newest first; the
\* store fixes no order among orders of one instant
SortedNewestFirst(stored) ==
  LET n == Len(stored)
      orderings == {q \in [1..n -> 1..n] :
                      /\ \A i, j \in 1..n : i # j => q[i] # q[j]
                      /\ \A i, j \in 1..n :
                           i < j => stored[q[i]].createdAt >= stored[q[j]].createdAt}
  IN  {[i \in 1..n |-> stored[q[i]]] : q \in orderings}

\* router.get('/orders')
getOrdersHandler(sorted, storeOk) ==
  IF ~storeOk
  THEN Response("GET /orders", 500, "Error retrieving orders", NoBody, TRUE, {}, {})
  ELSE Response("GET /orders", 200, "", [success |-> TRUE, orders |-> sorted],
                TRUE, {}, {})

\* router.get('/orders/:id')
getOrderByIdHandler(stored, id, storeOk) ==
  LET ep == "GET /orders/:id"
      at == {k \in 1..Len(stored) : OrderId(k) = CastObjectId(id)}
  IN  IF ~CastsToObjectId(id) \/ ~storeOk
      THEN Response(ep, 500, "Error retrieving order", NoBody, TRUE, {}, {})
      ELSE IF at = {}
      THEN Response(ep, 404, "Order not found", NoBody, TRUE, {}, {})
      ELSE Response(ep, 200, "",
                    [success |-> TRUE, order |-> stored[CHOOSE k \in at : TRUE]],
                    TRUE, {}, {})

\* .limit(10)
RecentLimit == 10

\* router.get('/orders/recent') of the dashboard router
recentOrdersHandler(sorted, storeOk) ==
  IF ~storeOk
  THEN Response("GET /orders/recent", 500, "Server error", NoBody, TRUE, {}, {})
  ELSE Response("GET /orders/recent", 200, "",
                SubSeq(sorted, 1, IF Len(sorted) < RecentLimit THEN Len(sorted)
                                  ELSE RecentLimit),
                TRUE, {}, {})

\* ------------------------------------------------- GET /dashboard/summary
\* reduce((total, order) => total + (order.totalAmount || 0), 0)
RECURSIVE SalesOf(_)
SalesOf(list) ==
  IF list = <<>> THEN 0 ELSE Head(list).totalAmount + SalesOf(Tail(list))

\* the orders with firstDay <= createdAt <= lastDay
OrdersBetween(stored, firstDay, lastDay) ==
  SelectSeq(stored, LAMBDA o : o.createdAt >= firstDay /\ o.createdAt <= lastDay)

\* order.customerDetails?.email of the orders, without the empty ones
EmailsOf(list) ==
  {list[k].customerDetails.email :
     k \in {j \in 1..Len(list) :
              /\ "email" \in DOMAIN list[j].customerDetails
              /\ list[j].customerDetails.email # ""}}

\* n / d rounded to the nearest integer, halves away from zero (d > 0)
Rounded(n, d) ==
  IF n >= 0 THEN (2 * n + d) \div (2 * d) ELSE -((2 * (-n) + d) \div (2 * d))

\* parseFloat(((current - previous) / previous * 100).toFixed(1)) when
\* previous > 0, else 0; in tenths of a percent
growth(current, previous) ==
  IF previous > 0 THEN Rounded((current - previous) * 1000, previous) ELSE 0

dashboardSummaryHandler(stored, t, storeOk) ==
  LET ep == "GET /dashboard/summary"
      monthlyOrders   == OrdersBetween(stored, firstDayOf(MonthOf(t)),
                                       lastDayOf(MonthOf(t)))
      prevMonthOrders == OrdersBetween(stored, firstDayOf(MonthOf(t) - 1),
                                       lastDayOf(MonthOf(t) - 1))
      uniqueCustomers == EmailsOf(stored)
      uniqueCustomersPrevMonth == EmailsOf(prevMonthOrders)
  IN  IF ~storeOk
      THEN Response(ep, 500, "Server error", NoBody, TRUE, {}, {})
      ELSE Response(ep, 200, "",
             [totalSales      |-> SalesOf(stored),
              monthlySales    |-> SalesOf(monthlyOrders),
              totalOrders     |-> Len(stored),
              totalCustomers  |-> Cardinality(uniqueCustomers),
              revenueGrowth   |-> growth(SalesOf(monthlyOrders),
                                         SalesOf(prevMonthOrders)),
              ordersGrowth    |-> growth(Len(monthlyOrders), Len(prevMonthOrders)),
              customersGrowth |-> growth(Cardinality(uniqueCustomers),
                                         Cardinality(uniqueCustomersPrevMonth))],
             TRUE, {}, {})

\* a read of the orders at a time that is not before the clock
ReadOrders(request, answer, at) ==
  /\ req' = request
  /\ resp' = answer
  /\ nreq' = nreq + 1
  /\ clock' = at
  /\ UNCHANGED <<disk, unlinks, nextId, products, orders, queries, proc>>

Times == 0..MaxTime

GetOrders ==
  /\ nreq < MaxRequests
  /\ \E at \in {t \in Times : t >= clock}, storeOk \in BOOLEAN,
        sorted \in SortedNewestFirst(orders) :
       ReadOrders([ep |-> "GET /orders", at |-> at, storeOk |-> storeOk],
                  getOrdersHandler(sorted, storeOk), at)

\* the ids asked for; '/orders/:id' also matches the path /orders/recent,
\* with the id "recent"
OrderIdInputs == {OrderId(1), Oid("f"), <<"r","e","c","e","n","t">>}

GetOrderById ==
  /\ nreq < MaxRequests
  /\ \E at \in {t \in Times : t >= clock}, storeOk \in BOOLEAN,
        id \in OrderIdInputs :
       ReadOrders([ep |-> "GET /orders/:id", id |-> id, at |-> at,
                   storeOk |-> storeOk],
                  getOrderByIdHandler(orders, id, storeOk), at)

GetOrdersRecent ==
  /\ nreq < MaxRequests
  /\ \E at \in {t \in Times : t >= clock}, storeOk \in BOOLEAN,
        sorted \in SortedNewestFirst(orders) :
       ReadOrders([ep |-> "GET /orders/recent", at |-> at, storeOk |-> storeOk],
                  recentOrdersHandler(sorted, storeOk), at)

DashboardSummary ==
  /\ nreq < MaxRequests
  /\ \E at \in {t \in Times : t >= clock}, storeOk \in BOOLEAN :
       ReadOrders([ep |-> "GET /dashboard/summary", at |-> at,
                   storeOk |-> storeOk],
                  dashboardSummaryHandler(orders, at, storeOk), at)

\* the paths below /api the orders are read at
OrderPaths ==
  {<<<<"o","r","d","e","r","s">>>>,
   <<<<"o","r","d","e","r","s">>, <<"r","e","c","e","n","t">>>>,
   <<<<"o","r","d","e","r","s">>, OrderId(1)>>,
   <<<<"d","a","s","h","b","o","a","r","d">>, <<"s","u","m","m","a","r","y">>>>,
   <<<<"o","r","d","e","r","s">>, <<"r","e","c","e","n","t">>, <<"a","l","l">>>>}

\* GET /api/<path>, through the routers
ApiGetOrders ==
  /\ nreq < MaxRequests
  /\ \E at \in {t \in Times : t >= clock}, storeOk \in BOOLEAN,
        path \in OrderPaths, sorted \in SortedNewestFirst(orders) :
     \E hit \in {dispatch(path)} :
       ReadOrders([ep |-> "GET /api", path |-> path, at |-> at,
                   storeOk |-> storeOk],
                  CASE hit.handler = "GET /orders" ->
                         getOrdersHandler(sorted, storeOk)
                    [] hit.handler = "GET /orders/:id" ->
                         getOrderByIdHandler(orders, hit.params[1][1], storeOk)
                    [] hit.handler = "GET /orders/recent" ->
                         recentOrdersHandler(sorted, storeOk)
                    [] hit.handler = "GET /dashboard/summary" ->
                         dashboardSummaryHandler(orders, at, storeOk)
                    [] OTHER -> notFoundHandler,
                  at)

\* the orders the dashboard is read over: a sale with an email, a sale
\* without one, and an order of negative total with another email
SaleData   == Arr(<<Item(Num(10), Num(1))>>)
RefundData == Arr(<<Item(Str(<<"-","5">>), Num(1))>>)
Shipped    == Str(<<"S","h","i","p","p","e","d">>)

DashboardPostOrders ==
  \/ PostOrdersFrom({SaleData}, {Customer("a@x"), Undefined}, {Shipped},
                    {"saved"}, Times)
  \/ PostOrdersFrom({RefundData}, {Customer("b@x")}, {Shipped}, {"saved"}, Times)

\* the body of a POST /orders
OrderBody(orderData, customer) ==
  [orderData |-> orderData, orderSummary |-> Undefined,
   customerDetails |-> customer, paymentDetails |-> Undefined,
   status |-> Undefined]

\* the collection after a sale on the first day of month 0, a sale during
\* its last day and an order of negative total on the first day of month 1
SeededOrders ==
  LET first  == postOrdersHandler(<<>>, OrderBody(SaleData, Customer("a@x")),
                                  "saved", 0).orders
      second == postOrdersHandler(first, OrderBody(SaleData, Customer("b@x")),
                                  "saved", 2).orders
  IN  postOrdersHandler(second, OrderBody(RefundData, Customer("a@x")),
                        "saved", 3).orders

\* ------------------------------------------ specification of the dashboard
\* the server is fresh, or has served the three orders above
InitDashboard ==
  /\ proc = Started
  /\ disk = {} /\ unlinks = <<>> /\ nextId = 1 /\ queries = 0 /\ nreq = 0
  /\ products = <<>>
  /\ req = NoReq
  /\ resp = NoResp
  /\ \/ orders = <<>> /\ clock = 0
     \/ orders = SeededOrders /\ clock = 3

NextDashboard ==
  \/ DashboardPostOrders
  \/ GetOrders
  \/ GetOrderById
  \/ GetOrdersRecent
  \/ DashboardSummary
  \/ ApiGetOrders

SpecDashboard == InitDashboard /\ [][NextDashboard]_vars

\* -------------------------------------------- specification of the ingestion
InitIngest ==
  /\ FreshServer
  /\ products = <<>>
  /\ req = NoReq
  /\ resp = NoResp

NextIngest ==
  \/ UploadImage
  \/ UploadFingerprint
  \/ UploadImageData
  \/ ApiUpload
  \/ UploadBase64
  \/ ImageUploadBase64
  \/ UploadUrl

SpecIngest == InitIngest /\ [][NextIngest]_vars

\* ------------------------------------------------- specification of the codec
\* isBase64 applied to one value
InitCodec ==
  /\ FreshServer
  /\ products = <<>>
  /\ req \in {[ep |-> "isBase64", str |-> v] : v \in CodecInputs}
  /\ resp = NoResp

CallIsBase64 ==
  /\ req.ep = "isBase64"
  /\ resp = NoResp
  /\ resp' = [ep |-> "isBase64", threw |-> FALSE, result |-> isBase64(req.str)]
  /\ UNCHANGED <<disk, unlinks, nextId, products, orders, queries, req, nreq, clock, proc>>

NextCodec == CallIsBase64

SpecCodec == InitCodec /\ [][NextCodec]_vars

\* ------------------------------------------------------ products collection
\* a document of the products collection (productSchema); customOption is
\* Undefined in a document that was stored without the field
ProductDoc(id, name, price, peopleCategory, productCategory, customOption, stock, images, createdAt) ==
  [_id |-> Oid(id), name |-> Str(<<name>>), price |-> price,
   peopleCategory |-> Str(peopleCategory),
   productCategory |-> Str(productCategory),
   productType |-> Str(<<"G","o","l","d">>),
   priceRange |-> Str(<<"l","o","w">>),
   customOption |-> customOption, stock |-> stock, images |-> images,
   createdAt |-> createdAt]

Ring      == <<"R","i","n","g">>
Pendants  == <<"P","e","n","d","a","n","t","s">>
Bracelets == <<"B","r","a","c","e","l","e","t","s">>
NoCustom  == Str(<<"N","o","n","e">>)
Engraving == Str(<<"E","n","g","r","a","v","i","n","g">>)

CatalogDocs ==
  { ProductDoc("a", "b", 30, <<"m","a","l","e">>, Ring, NoCustom, 0, <<>>, 3),
    ProductDoc("b", "a", 10, <<"M","a","l","e">>, Ring, Engraving, 5,
               <<BadImage, GoodImage>>, 1),
    ProductDoc("c", "c", 20, <<"M","A","L","E">>, Ring, NoCustom, 1,
               <<GoodImage>>, 5),
    ProductDoc("d", "d", 20, <<"M","a","l","e">>, Pendants, Undefined, 2,
               <<>>, 2),
    ProductDoc("e", "a", 40, <<"U","n","i","s","e","x">>, Ring, NoCustom, 1,
               <<>>, 4),
    ProductDoc("f", "e", 15, <<"K","i","d","s">>, Ring, Str(<<>>), 0,
               <<GoodImage>>, 6),
    ProductDoc("0", "f", 25, <<"k","i","d","s">>, Bracelets, Engraving, 3,
               <<>>, 7),
    ProductDoc("1", "g", 5, <<"m","a","l","e">>, Ring, Engraving, 4,
               <<>>, 8),
    ProductDoc("2", "h", 35, <<"K","i","d","s">>, Pendants, NoCustom, 2,
               <<>>, 9) }

\* the collections the listings read: one or two documents, in the order the
\* store returns them
Catalogs ==
  {<<d>> : d \in CatalogDocs}
    \cup {<<d, e>> : <<d, e>> \in {pair \in CatalogDocs \X CatalogDocs :
                                        pair[1] # pair[2]}}

\* Product.find hydrates a document with the defaults of the schema
hydrated(doc) ==
  [doc EXCEPT !.customOption = IF @ = Undefined THEN Str(<<>>) ELSE @]

\* Array.prototype.map
Map(list, f(_)) == [k \in 1..Len(list) |-> f(list[k])]

\* ------------------------------------------------------- listing the products
\* the query string of a listing request
Query(productCategory, productType, priceRange, minPrice, maxPrice, sortBy) ==
  [productCategory |-> productCategory, productType |-> productType,
   priceRange |-> priceRange, minPrice |-> minPrice, maxPrice |-> maxPrice,
   sortBy |-> sortBy]

\* casting price.$gte / price.$lte to the Number of the schema fails on NaN
priceCastFails(q) ==
  \/ ~Falsy(q.minPrice) /\ parseInt(q.minPrice).nan
  \/ ~Falsy(q.maxPrice) /\ parseInt(q.maxPrice).nan

\* the filters a listing takes from the query string
additionalFilters(doc, q) ==
  /\ Falsy(q.productCategory) \/ doc.productCategory = q.productCategory
  /\ Falsy(q.productType) \/ doc.productType = q.productType
  /\ Falsy(q.priceRange) \/ doc.priceRange = q.priceRange
  /\ Falsy(q.minPrice) \/ doc.price >= parseInt(q.minPrice).n
  /\ Falsy(q.maxPrice) \/ doc.price <= parseInt(q.maxPrice).n

\* Array.prototype.sort with a comparator a.key - b.key: ascending and stable
SortedBy(list, key(_)) ==
  LET n == Len(list)
      place(i) == Cardinality({j \in 1..n :
                     \/ key(list[j]) < key(list[i])
                     \/ key(list[j]) = key(list[i]) /\ j < i}) + 1
  IN  [k \in 1..n |-> list[CHOOSE i \in 1..n : place(i) = k]]

\* a.name.localeCompare(b.name) orders the one-letter lowercase names of the
\* model as the alphabet does
nameKey(doc) == CHOOSE k \in 1..Len(LowerLetters) : LowerLetters[k] = doc.name.s[1]

\* if (sortBy) { switch (sortBy) { ... } }
sortProducts(found, sortBy) ==
  IF Falsy(sortBy) THEN found
  ELSE CASE sortBy.s = <<"a","l","p","h","a","-","a","s","c">> ->
              SortedBy(found, nameKey)
         [] sortBy.s = <<"a","l","p","h","a","-","d","e","s","c">> ->
              SortedBy(found, LAMBDA doc : -nameKey(doc))
         [] sortBy.s = <<"p","r","i","c","e","-","a","s","c">> ->
              SortedBy(found, LAMBDA doc : doc.price)
         [] sortBy.s = <<"p","r","i","c","e","-","d","e","s","c">> ->
              SortedBy(found, LAMBDA doc : -doc.price)
         [] OTHER -> SortedBy(found, LAMBDA doc : -doc.createdAt)

\* the two spellings of peopleCategory a category listing asks for
categorySpellings(category) ==
  CASE category = "men"     -> {<<"m","a","l","e">>, <<"M","a","l","e">>}
    [] category = "women"   -> {<<"f","e","m","a","l","e">>,
                                <<"F","e","m","a","l","e">>}
    [] category = "kids"    -> {<<"k","i","d","s">>, <<"K","i","d","s">>}
    [] category = "unisex"  -> {<<"u","n","i","s","e","x">>,
                                <<"U","n","i","s","e","x">>}
    [] category = "couples" -> {<<"C","o","u","p","l","e","s">>,
                                <<"c","o","u","p","l","e","s">>}

\* { $or: [{ customOption: "None" }, { customOption: { $exists: false } }] }
plainOption(doc) == doc.customOption = NoCustom \/ doc.customOption = Undefined

\* router.get('/products/category/men|women|kids|unisex|couples')
categoryListingHandler(docs, category, q, storeOk) ==
  LET ep == "GET /products/category/" \o category
      found == SelectSeq(docs, LAMBDA doc :
                 /\ doc.peopleCategory.s \in categorySpellings(category)
                 /\ category = "unisex" \/ plainOption(doc)
                 /\ additionalFilters(doc, q))
  IN  IF priceCastFails(q) \/ ~storeOk
      THEN Response(ep, 500, "Server error", NoBody, TRUE, {}, {})
      ELSE Response(ep, 200, "", [products |-> sortProducts(Map(found, hydrated), q.sortBy)],
                    TRUE, {}, {})

\* router.get('/products')
listProductsHandler(docs, peopleCategory, q, storeOk) ==
  LET ep == "GET /products"
      found == SelectSeq(docs, LAMBDA doc :
                 /\ Falsy(peopleCategory) \/ doc.peopleCategory = peopleCategory
                 /\ additionalFilters(doc, q))
  IN  IF priceCastFails(q) \/ ~storeOk
      THEN Response(ep, 500, "Server error", NoBody, TRUE, {}, {})
      ELSE Response(ep, 200, "", [products |-> sortProducts(Map(found, hydrated), q.sortBy)],
                    TRUE, {}, {})

\* ------------------------------------------- customization-aware listings
\* Number(v) of a query-string value made of an optional sign and digits:
\* 0 for the empty string, NaN for anything else that is no such number
Number(v) ==
  LET s     == StringOf(v)
      first == IF Len(s) >= 1 /\ s[1] \in {"-", "+"} THEN 2 ELSE 1
  IN  IF s = <<>> THEN Finite(0)
      ELSE IF first <= Len(s) /\ RunEnd(s, first, Digit) = Len(s) + 1
           THEN parseInt(v) ELSE NaN

\* find(query).sort({ key: 1 }): the store fixes no order among documents
\* of equal key
StoreSorted(list, key(_)) ==
  LET n == Len(list)
      orderings == {p \in [1..n -> 1..n] :
                      /\ \A i, j \in 1..n : i # j => p[i] # p[j]
                      /\ \A i, j \in 1..n :
                           i < j => key(list[p[i]]) <= key(list[p[j]])}
  IN  {[i \in 1..n |-> list[p[i]]] : p \in orderings}

\* the sort options both customization-aware handlers build
sortedByOption(found, sort) ==
  IF Falsy(sort) THEN StoreSorted(found, LAMBDA doc : -doc.createdAt)
  ELSE CASE sort.s = <<"p","r","i","c","e","-","a","s","c">> ->
              StoreSorted(found, LAMBDA doc : doc.price)
         [] sort.s = <<"p","r","i","c","e","-","d","e","s","c">> ->
              StoreSorted(found, LAMBDA doc : -doc.price)
         [] sort.s = <<"a","l","p","h","a","-","a","s","c">> ->
              StoreSorted(found, nameKey)
         [] sort.s = <<"a","l","p","h","a","-","d","e","s","c">> ->
              StoreSorted(found, LAMBDA doc : -nameKey(doc))
         [] OTHER -> StoreSorted(found, LAMBDA doc : -doc.createdAt)

\* one product of mapProducts; description is no path of the schema
mapProduct(product, defaultDescription) ==
  LET processedImages == processImageArray(product.images, 4)
      mainImage == IF Len(processedImages) > 0 THEN processedImages[1]
                   ELSE Placeholder
  IN  [id |-> product._id, name |-> product.name,
       price |-> toFixed2(product.price * 100), mainImage |-> mainImage,
       image |-> mainImage, images |-> processedImages,
       inStock |-> product.stock > 0,
       customizationType |-> customizationTypeOf(product),
       description |-> defaultDescription]

mapProducts(list, defaultDescription) ==
  Map(list, LAMBDA product : mapProduct(product, defaultDescription))

\* the answer of a customization-aware listing
listed(ep, mappedProducts) ==
  Response(ep, 200, "", [success |-> TRUE, count |-> Len(mappedProducts),
                         products |-> mappedProducts], TRUE, {}, {})

\* router.get('/products/kids'): the answers the store's order allows
kidsHandler(docs, q, storeOk) ==
  LET ep == "GET /products/kids"
      wanted(doc) ==
        IF /\ ~Falsy(q.customOption)
           /\ q.customOption.s \notin {<<"a","v","a","i","l","a","b","l","e">>,
                                        <<"n","o","n","e">>}
        THEN doc.customOption = q.customOption
        ELSE doc.customOption # NoCustom
      found == SelectSeq(docs, LAMBDA doc :
                 /\ doc.peopleCategory = Str(<<"K","i","d","s">>)
                 /\ wanted(doc)
                 /\ Falsy(q.productCategory) \/ doc.productCategory = q.productCategory
                 /\ Falsy(q.minPrice) \/ doc.price >= Number(q.minPrice).n
                 /\ Falsy(q.maxPrice) \/ doc.price <= Number(q.maxPrice).n)
      castFails == \/ ~Falsy(q.minPrice) /\ Number(q.minPrice).nan
                   \/ ~Falsy(q.maxPrice) /\ Number(q.maxPrice).nan
      mapped(product) ==
        [id |-> product._id, name |-> product.name,
         price |-> toFixed2(product.price * 100),
         mainImage |-> processImageArray(product.images, 4)[1],
         images |-> processImageArray(product.images, 4),
         inStock |-> product.stock > 0,
         customizationType |-> customizationTypeOf(product),
         description |-> <<"Beautiful", toLowerCase(product.productCategory.s),
                           "for kids">>]
  IN  IF castFails \/ ~storeOk
      THEN {Response(ep, 500, "Failed to fetch products", NoBody, TRUE, {}, {})}
      ELSE {listed(ep, Map(sorted, mapped)) :
              sorted \in sortedByOption(Map(found, hydrated), q.sort)}

\* the routes getProductsByCategory serves
CategoryRoutes ==
  LET kids == <<"K","i","d","s">>
      female == <<"F","e","m","a","l","e">>
      male == <<"M","a","l","e">>
      route(path, people, category, description) ==
        [path |-> path, peopleCategory |-> Str(people),
         productCategory |-> Str(category), description |-> description]
  IN  { route("/products/kids/rings", kids, Ring, "Adorable ring for kids"),
        route("/products/kids/pendants", kids, Pendants, "Adorable pendant for kids"),
        route("/products/kids/bracelets", kids, Bracelets, "Adorable bracelet for kids"),
        route("/products/women/rings", female, Ring, "Elegant ring for women"),
        route("/products/women/pendants", female, Pendants, "Elegant pendant for women"),
        route("/products/women/bracelets", female, Bracelets, "Elegant bracelet for women"),
        route("/products/men/rings", male, Ring, "Sophisticated ring for men"),
        route("/products/men/pendants", male, Pendants, "Sophisticated pendant for men"),
        route("/products/men/bracelets", male, Bracelets, "Sophisticated bracelet for men") }

\* handleError
handleError(ep) ==
  Response(ep, 500, "Failed to fetch", NoBody, TRUE, {}, {})

\* getProductsByCategory(peopleCategory, productCategory, defaultDescription)
getProductsByCategory(docs, route, storeOk) ==
  LET ep == "GET " \o route.path
      found == SelectSeq(docs, LAMBDA doc :
                 /\ doc.peopleCategory = route.peopleCategory
                 /\ doc.productCategory = route.productCategory
                 /\ doc.customOption # NoCustom)
  IN  IF ~storeOk THEN handleError(ep)
      ELSE listed(ep, mapProducts(Map(found, hydrated), route.description))

\* the routes createFilteredProductRoute registers
FilteredRoutes ==
  LET kids == <<"K","i","d","s">>
      female == <<"F","e","m","a","l","e">>
      male == <<"M","a","l","e">>
      route(path, people, category, description) ==
        [path |-> path, peopleCategory |-> Str(people),
         productCategory |-> Str(category), description |-> description]
  IN  { route("/kids-rings", kids, Ring, "Magical ring for kids"),
        route("/kids-pendants", kids, Pendants, "Magical pendant for kids"),
        route("/kids-bracelets", kids, Bracelets, "Magical bracelet for kids"),
        route("/women-rings", female, Ring, "Elegant ring for women"),
        route("/women-pendants", female, Pendants, "Elegant pendant for women"),
        route("/women-bracelets", female, Bracelets, "Elegant bracelet for women"),
        route("/men-rings", male, Ring, "Sophisticated ring for men"),
        route("/men-pendants", male, Pendants, "Sophisticated pendant for men"),
        route("/men-bracelets", male, Bracelets, "Sophisticated bracelet for men") }

\* customizationType.charAt(0).toUpperCase() + customizationType.slice(1) for
\* the customization types the filtered routes know
Capitalised(customizationType) ==
  CASE customizationType = <<"f","i","n","g","e","r","p","r","i","n","t">> ->
         <<"F","i","n","g","e","r","p","r","i","n","t">>
    [] customizationType = <<"e","n","g","r","a","v","i","n","g">> ->
         <<"E","n","g","r","a","v","i","n","g">>
    [] customizationType = <<"i","m","a","g","e">> -> <<"I","m","a","g","e">>
    [] customizationType = <<"c","o","m","b","i","n","e","d">> ->
         <<"C","o","m","b","i","n","e","d">>
    [] OTHER -> <<>>

\* the handler createFilteredProductRoute registers: the answers the
\* store's order allows
filteredRouteHandler(docs, route, q, storeOk) ==
  LET ep  == "GET " \o route.path
      min == IF q.minPrice = Undefined THEN Finite(0) ELSE Number(q.minPrice)
      max == IF q.maxPrice = Undefined THEN Finite(2000) ELSE Number(q.maxPrice)
      wanted(doc) ==
        IF q.customizationType # Undefined
           /\ Capitalised(q.customizationType.s) # <<>>
        THEN doc.customOption = Str(Capitalised(q.customizationType.s))
        ELSE doc.customOption # NoCustom
      found == SelectSeq(docs, LAMBDA doc :
                 /\ doc.peopleCategory = route.peopleCategory
                 /\ doc.productCategory = route.productCategory
                 /\ doc.price >= min.n /\ doc.price <= max.n
                 /\ wanted(doc))
      sortBy == IF q.sortBy = Undefined \/ q.sortBy = Str(<<"f","e","a","t","u","r","e","d">>)
                THEN Undefined ELSE q.sortBy
  IN  IF min.nan \/ max.nan \/ ~storeOk THEN {handleError(ep)}
      ELSE {listed(ep, mapProducts(sorted, route.description)) :
              sorted \in sortedByOption(Map(found, hydrated), sortBy)}

\* ---------------------------------------------- specification of the listings
\* a listing request reads the collection and answers
ReadListing(request, answer) ==
  /\ req' = request
  /\ resp' = answer
  /\ nreq' = nreq + 1
  /\ UNCHANGED <<disk, unlinks, nextId, products, orders, queries, clock, proc>>

\* the query strings the listings are asked with: no parameter, or one
Twenty == Str(<<"2","0">>)
NotANumber == Str(<<"x">>)
SortKeys ==
  { Str(<<"a","l","p","h","a","-","a","s","c">>),
    Str(<<"a","l","p","h","a","-","d","e","s","c">>),
    Str(<<"p","r","i","c","e","-","a","s","c">>),
    Str(<<"p","r","i","c","e","-","d","e","s","c">>),
    Str(<<"n","e","w","e","s","t">>) }

PlainQuery ==
  Query(Undefined, Undefined, Undefined, Undefined, Undefined, Undefined)

ListingQueries ==
  LET U == Undefined
  IN  { PlainQuery, Query(Str(Ring), U, U, U, U, U),
        Query(U, Str(<<"S","i","l","v","e","r">>), U, U, U, U),
        Query(U, U, Str(<<"l","o","w">>), U, U, U),
        Query(U, U, U, Twenty, U, U), Query(U, U, U, U, Twenty, U),
        Query(U, U, U, NotANumber, U, U) }
    \cup {Query(U, U, U, U, U, sortBy) : sortBy \in SortKeys}

ListCategory ==
  /\ nreq < MaxListings
  /\ \E category \in {"men", "women", "kids", "unisex", "couples"},
        q \in ListingQueries :
     \E storeOk \in IF q = PlainQuery THEN BOOLEAN ELSE {TRUE} :
       ReadListing([ep |-> "GET /products/category/" \o category, q |-> q,
                    storeOk |-> storeOk],
                   categoryListingHandler(products, category, q, storeOk))

ListProducts ==
  /\ nreq < MaxListings
  /\ \E peopleCategory \in {Undefined, Str(<<"m","a","l","e">>),
                            Str(<<"M","A","L","E">>)} :
     \E q \in IF peopleCategory = Undefined THEN ListingQueries ELSE {PlainQuery},
        storeOk \in IF peopleCategory = Undefined THEN BOOLEAN ELSE {TRUE} :
       ReadListing([ep |-> "GET /products", peopleCategory |-> peopleCategory,
                    q |-> q, storeOk |-> storeOk],
                   listProductsHandler(products, peopleCategory, q, storeOk))

KidsQueries ==
  LET U == Undefined
      kq(productCategory, customOption, minPrice, maxPrice, sort) ==
        [productCategory |-> productCategory, customOption |-> customOption,
         minPrice |-> minPrice, maxPrice |-> maxPrice, sort |-> sort]
  IN  {kq(U, customOption, U, U, U) :
         customOption \in {U, NoCustom, Engraving, Str(NoneOption),
                           Str(<<"a","v","a","i","l","a","b","l","e">>)}}
        \cup {kq(Str(Ring), U, U, U, U), kq(U, U, Twenty, U, U),
              kq(U, U, U, Twenty, U), kq(U, U, U, NotANumber, U)}
        \cup {kq(U, U, U, U, sort) : sort \in SortKeys}

ListKids ==
  /\ nreq < MaxListings
  /\ \E q \in KidsQueries, storeOk \in BOOLEAN :
       \E answer \in kidsHandler(products, q, storeOk) :
         ReadListing([ep |-> "GET /products/kids", q |-> q, storeOk |-> storeOk],
                     answer)

ListByCategory ==
  /\ nreq < MaxListings
  /\ \E route \in CategoryRoutes, storeOk \in BOOLEAN :
       ReadListing([ep |-> "GET " \o route.path, storeOk |-> storeOk],
                   getProductsByCategory(products, route, storeOk))

FilteredQueries ==
  LET U == Undefined
      fq(minPrice, maxPrice, customizationType, sortBy) ==
        [minPrice |-> minPrice, maxPrice |-> maxPrice,
         customizationType |-> customizationType, sortBy |-> sortBy]
  IN  {fq(U, U, customizationType, U) :
         customizationType \in {U, Str(<<"a","l","l">>), Str(NoneOption),
                                Str(<<"e","n","g","r","a","v","i","n","g">>)}}
        \cup {fq(Twenty, U, U, U), fq(U, Twenty, U, U), fq(NotANumber, U, U, U)}
        \cup {fq(U, U, U, sortBy) :
                sortBy \in SortKeys \cup {Str(<<"f","e","a","t","u","r","e","d">>)}}

ListFiltered ==
  /\ nreq < MaxListings
  /\ \E route \in FilteredRoutes :
     \E q \in IF route.path \in {"/men-rings", "/kids-rings"}
               THEN FilteredQueries
               ELSE {q \in FilteredQueries : q.sortBy = Undefined /\ q.minPrice = Undefined
                                              /\ q.maxPrice = Undefined},
        storeOk \in IF route.path = "/men-rings" THEN BOOLEAN ELSE {TRUE} :
       \E answer \in filteredRouteHandler(products, route, q, storeOk) :
         ReadListing([ep |-> "GET " \o route.path, q |-> q, storeOk |-> storeOk],
                     answer)

\* ------------------------------------------------ GET /products/search
\* { $regex: q, $options: 'i' } for a q of letters: q occurs in the field,
\* whatever the case
regexMatches(field, q) ==
  \E i \in 1..Len(field.s) : StartsWithAt(toLowerCase(field.s), i, toLowerCase(q.s))

\* req.query.priceRange.split('-').map(Number): the first two parts; max is
\* Undefined when there is one part only
splitRange(priceRange) ==
  LET s      == priceRange.s
      dashes == {i \in 1..Len(s) : s[i] = "-"}
      next(k) == IF \E i \in dashes : i > k
                 THEN CHOOSE i \in dashes : i > k /\ \A j \in dashes : j > k => i <= j
                 ELSE Len(s) + 1
  IN  [min |-> Number(Str(SubSeq(s, 1, next(0) - 1))),
       max |-> IF dashes = {} THEN Undefined
               ELSE Number(Str(SubSeq(s, next(0) + 1, next(next(0)) - 1)))]

All == Str(<<"a","l","l">>)

\* the filters of the search other than inStock; gram is the schema's
\* default 0 in every document of the model
searchFilters(doc, query) ==
  /\ Falsy(query.q)
       \/ regexMatches(doc.name, query.q)
       \/ regexMatches(doc.peopleCategory, query.q)
       \/ regexMatches(doc.productCategory, query.q)
  /\ Falsy(query.peopleCategory) \/ query.peopleCategory = All
       \/ doc.peopleCategory = query.peopleCategory
  /\ Falsy(query.productCategory) \/ query.productCategory = All
       \/ doc.productCategory = query.productCategory
  /\ Falsy(query.productType) \/ query.productType = All
       \/ doc.productType = query.productType
  /\ Falsy(query.priceRange) \/ query.priceRange = All
       \/ LET range == splitRange(query.priceRange)
          IN  /\ doc.price >= range.min.n
              /\ range.max = Undefined \/ range.max.nan \/ range.max.n = 0
                   \/ doc.price <= range.max.n
  /\ Falsy(query.customOption) \/ query.customOption = All
       \/ doc.customOption = query.customOption
  /\ Falsy(query.minGram) \/ 0 >= parseInt(query.minGram).n
  /\ Falsy(query.maxGram) \/ 0 <= parseInt(query.maxGram).n

\* casting the price and gram bounds to the Number of the schema fails on NaN
searchCastFails(query) ==
  \/ ~Falsy(query.priceRange) /\ query.priceRange # All
       /\ splitRange(query.priceRange).min.nan
  \/ ~Falsy(query.minGram) /\ parseInt(query.minGram).nan
  \/ ~Falsy(query.maxGram) /\ parseInt(query.maxGram).nan

\* filters.inStock = true names no path of the schema: a build whose
\* queries are strict drops the condition, another sends it to the store,
\* where no document has such a field
inStockFilter(doc, query, strictQuery) ==
  query.inStock = Str(<<"t","r","u","e">>) => strictQuery

\* Math.ceil(total / limit) for a positive limit
ceilDiv(total, limit) == (total + limit - 1) \div limit

\* the page of the documents found: skip, limit, newest first, and the count
\* of all of them
searchResult(found, page, limit) ==
  {Response("GET /products/search", 200, "",
            [success |-> TRUE, count |-> Len(paged), total |-> Len(found),
             totalPages |-> ceilDiv(Len(found), limit), currentPage |-> page,
             products |-> paged],
            TRUE, {}, {}) :
     paged \in {SubSeq(sorted, (page - 1) * limit + 1,
                          IF page * limit < Len(found) THEN page * limit
                          ELSE Len(found)) :
                     sorted \in StoreSorted(found, LAMBDA doc : -doc.createdAt)}}

\* router.get('/products/search')
searchHandler(docs, query, strictQuery, storeOk) ==
  IF searchCastFails(query) \/ ~storeOk
  THEN {Response("GET /products/search", 500,
                 "Server error while searching products", NoBody, TRUE, {}, {})}
  ELSE searchResult(Map(SelectSeq(docs, LAMBDA doc :
                          /\ searchFilters(doc, query)
                          /\ inStockFilter(doc, query, strictQuery)),
                        hydrated),
                    OrElse(parseInt(query.page), 1),
                    OrElse(parseInt(query.limit), 10))

\* a search without a query string
NoSearchParameters ==
  LET U == Undefined
  IN  [q |-> U, page |-> U, limit |-> U, peopleCategory |-> U,
       productCategory |-> U, productType |-> U, priceRange |-> U,
       customOption |-> U, inStock |-> U, minGram |-> U, maxGram |-> U]

SearchQueries ==
  LET plain == NoSearchParameters
      true == Str(<<"t","r","u","e">>)
      one == Str(<<"1">>)
  IN  { plain, [plain EXCEPT !.q = Str(Ring)],
        [plain EXCEPT !.peopleCategory = Str(<<"M","a","l","e">>)],
        [plain EXCEPT !.productCategory = All],
        [plain EXCEPT !.productType = Str(<<"S","i","l","v","e","r">>)],
        [plain EXCEPT !.priceRange = Str(<<"1","0","-","3","0">>)],
        [plain EXCEPT !.priceRange = Twenty],
        [plain EXCEPT !.priceRange = Str(<<"l","o","w">>)],
        [plain EXCEPT !.customOption = NoCustom],
        [plain EXCEPT !.minGram = one], [plain EXCEPT !.maxGram = one],
        [plain EXCEPT !.limit = one],
        [plain EXCEPT !.limit = one, !.page = Str(<<"2">>)],
        [plain EXCEPT !.inStock = true],
        [plain EXCEPT !.inStock = true, !.limit = one],
        [plain EXCEPT !.inStock = true, !.productCategory = Str(Ring)],
        [plain EXCEPT !.inStock = Str(<<"f","a","l","s","e">>)] }

Search ==
  /\ nreq < MaxListings
  /\ \E query \in SearchQueries :
     \E strictQuery \in IF Falsy(query.inStock) THEN {TRUE} ELSE BOOLEAN,
        storeOk \in IF Falsy(query.limit) THEN BOOLEAN ELSE {TRUE} :
       \E answer \in searchHandler(products, query, strictQuery, storeOk) :
         ReadListing([ep |-> "GET /products/search", query |-> query,
                      strictQuery |-> strictQuery, storeOk |-> storeOk], answer)

\* router.get('/') of the product router
productRouterListHandler(docs, storeOk) ==
  IF ~storeOk
  THEN {Response("productRoutes /", 500, "store error", NoBody, TRUE, {}, {})}
  ELSE {Response("productRoutes /", 200, "", sorted, TRUE, {}, {}) :
          sorted \in StoreSorted(Map(docs, hydrated), LAMBDA doc : -doc.createdAt)}

\* the paths below /api the products are read at
ProductPaths ==
  {<<<<"p","r","o","d","u","c","t","s">>>>,
   <<<<"p","r","o","d","u","c","t","s">>, <<"s","e","a","r","c","h">>>>,
   <<<<"p","r","o","d","u","c","t","s">>, <<"c","a","t","e","g","o","r","y">>, <<"m","e","n">>>>,
   <<<<"t","e","s","t">>, <<"s","e","a","r","c","h">>>>}

\* GET /api/<path> without a query string, through the routers
ApiGetProducts ==
  /\ nreq < MaxListings
  /\ \E path \in ProductPaths, storeOk \in BOOLEAN :
     \E hit \in {dispatch(path)} :
     \E answer \in
          CASE hit.handler = "productRoutes /" ->
                 productRouterListHandler(products, storeOk)
            [] hit.handler = "productRoutes /:id" ->
                 {productRouterGetHandler(products, hit.params[1][1]).resp}
            [] hit.handler = "GET /products/search" ->
                 searchHandler(products, NoSearchParameters, TRUE, storeOk)
            [] hit.handler = "GET /products/category/men" ->
                 {categoryListingHandler(products, "men", PlainQuery, storeOk)}
            [] OTHER -> {notFoundHandler} :
       ReadListing([ep |-> "GET /api", path |-> path, storeOk |-> storeOk], answer)

InitListing ==
  /\ proc = Started
  /\ disk = {} /\ unlinks = <<>> /\ nextId = 1 /\ queries = 0 /\ nreq = 0
  /\ orders = <<>> /\ clock = 0
  /\ products \in Catalogs
  /\ req = NoReq
  /\ resp = NoResp

NextListing ==
  \/ ListCategory
  \/ ListProducts
  \/ ListKids
  \/ ListByCategory
  \/ ListFiltered
  \/ Search
  \/ ApiGetProducts

SpecListing == InitListing /\ [][NextListing]_vars

\* ------------------------------------------- specification of the projection
\* the images a stored product may hold: data-URIs, a placeholder path and a
\* URL, in lists of at most MaxImages entries, or no images field
StoredImageValues ==
  { GoodImage,
    Str(DataImagePrefix \o <<"j","p","e","g">> \o Base64Marker \o <<"Q","Q">>),
    Str(PlaceholderPrefix \o <<"1">>),
    BadImage }

StoredImages ==
  {Undefined} \cup {Arr(list) : list \in UNION {[1..n -> StoredImageValues] :
                                                  n \in 0..MaxImages}}

ProjectionDocs ==
  {ProductDoc("a", "a", 10, <<"M","a","l","e">>, Ring, customOption, stock,
              images, 1) :
     customOption \in {Undefined, Str(<<>>), NoCustom, Engraving},
     stock \in {0, 2}, images \in StoredImages}

\* an array path of the schema is hydrated as [] when the document has none
hydratedArrays(doc) ==
  [hydrated(doc) EXCEPT !.images = IF @ = Undefined THEN <<>> ELSE @.a]

InitProjection ==
  /\ FreshServer
  /\ products \in {<<doc>> : doc \in ProjectionDocs}
  /\ req = [ep |-> "mapProducts"]
  /\ resp = NoResp

CallMapProducts ==
  /\ req.ep = "mapProducts"
  /\ resp = NoResp
  /\ resp' = [ep |-> "mapProducts",
              products |-> mapProducts(Map(products, hydratedArrays),
                                       "Elegant ring for women")]
  /\ UNCHANGED <<disk, unlinks, nextId, products, orders, queries, req, nreq, clock, proc>>

NextProjection == CallMapProducts

SpecProjection == InitProjection /\ [][NextProjection]_vars

\* ------------------------------------------------- the answers to an error
\* the errors thrown to a catch block or passed to next(err)
Thrown(name, message) == [name |-> name, message |-> message]

ThrownErrors ==
  {Thrown("ValidationError", "Order validation failed"),
   Thrown("MongoNetworkError", "connect ECONNREFUSED 10.0.0.5:27017"),
   Thrown("CastError", "Cast to ObjectId failed"),
   Thrown("TypeError", "Cannot read properties of undefined"),
   Thrown("Error", "ENOSPC: no space left on device")}

\* process.env.NODE_ENV
Environments == {"production", "development", "unset"}

\* the error member of a body: absent, {}, the message of the error, or an
\* object with its message and name
NoErrorMember == [kind |-> "absent"]
EmptyDetail == [kind |-> "empty"]
MessageOf(err) == [kind |-> "message", message |-> err.message]
DetailOf(err) == [kind |-> "object", message |-> err.message, name |-> err.name]

\* the catch block of POST /orders
postOrdersCatch(error) ==
  IF error.name = "ValidationError"
  THEN Response("POST /orders", 400, "Validation error",
                [success |-> FALSE, error |-> MessageOf(error)], TRUE, {}, {})
  ELSE Response("POST /orders", 500, "Error saving order",
                [success |-> FALSE, error |-> MessageOf(error)], TRUE, {}, {})

\* the catch block of POST /upload/image
uploadImageCatch(error) ==
  Response("/upload/image", 500, "Server error",
           [success |-> FALSE, error |-> MessageOf(error)], TRUE, {}, {})

\* the catch block of router.get('/') of the product router
productRouterListCatch(err) ==
  Response("productRoutes /", 500, err.message,
           [success |-> FALSE, error |-> NoErrorMember], TRUE, {}, {})

\* the general error middleware
generalErrorMiddleware(err, env) ==
  Response("error middleware", 500, "Internal Server Error",
           [success |-> FALSE,
            error |-> IF env = "production" THEN EmptyDetail ELSE DetailOf(err)],
           FALSE, {}, {})

\* an error answered, by the catch block of a handler or by the middleware
AnswerError(ep, env, err, answer) ==
  /\ nreq < MaxRequests
  /\ req' = [ep |-> ep, env |-> env, err |-> err]
  /\ resp' = answer
  /\ nreq' = nreq + 1
  /\ UNCHANGED <<disk, unlinks, nextId, products, orders, queries, clock, proc>>

PostOrdersThrows ==
  \E env \in Environments, err \in ThrownErrors :
    AnswerError("POST /orders", env, err, postOrdersCatch(err))

UploadImageThrows ==
  \E env \in Environments, err \in ThrownErrors :
    AnswerError("/upload/image", env, err, uploadImageCatch(err))

ProductRouterListThrows ==
  \E env \in Environments, err \in ThrownErrors :
    AnswerError("productRoutes /", env, err, productRouterListCatch(err))

ErrorMiddlewareAnswers ==
  \E env \in Environments, err \in ThrownErrors :
    AnswerError("error middleware", env, err, generalErrorMiddleware(err, env))

InitErrors ==
  /\ FreshServer
  /\ products = <<>>
  /\ req = NoReq
  /\ resp = NoResp

NextErrors ==
  \/ PostOrdersThrows
  \/ UploadImageThrows
  \/ ProductRouterListThrows
  \/ ErrorMiddlewareAnswers

SpecErrors == InitErrors /\ [][NextErrors]_vars

\* --------------------------------------------- start and end of the process
\* const retries = 5; const delay = 5000 (ms) of connectDB
retries == 5
delay == 5000

\* the grace period of gracefulShutdown (ms)
GracePeriod == 30000

Exited(p) == p.exit.by # "none"

\* process.exit(code)
Exit(p, by, code) == [p EXCEPT !.exit = [by |-> by, code |-> code]]

\* the catch block of an attempt, and the .catch of the call of connectDB,
\* with the error thrown in every environment
connectFailedThrowsAnywhere(p, now) ==
  LET failed == [p EXCEPT !.failures = @ + 1, !.db = IF @ = 2 THEN 0 ELSE @]
  IN  IF p.attempts < retries
      THEN [failed EXCEPT !.connect = "delay", !.retryAt = {now + delay},
                          !.delays = Append(@, delay)]
      ELSE Exit([failed EXCEPT !.connect = "threw"], "connectDB", 1)

\* the catch block of an attempt of connectDB: before the last attempt the
\* delay is awaited; after it the error is thrown outside production, and the
\* .catch of the call of connectDB then ends the process with code 1
connectFailed(p, now) ==
  LET failed == [p EXCEPT !.failures = @ + 1, !.db = IF @ = 2 THEN 0 ELSE @]
  IN  IF p.attempts < retries
      THEN [failed EXCEPT !.connect = "delay", !.retryAt = {now + delay},
                          !.delays = Append(@, delay)]
      ELSE IF p.env # "production"
      THEN Exit([failed EXCEPT !.connect = "threw"], "connectDB", 1)
      ELSE [failed EXCEPT !.connect = "gaveUp"]

\* gracefulShutdown(signal): the timer of the forced exit is set; a server
\* is asked to close, and without one the process exits at once
gracefulShutdown(p, now) ==
  LET timed == [p EXCEPT !.signals = @ + 1,
                         !.signalAt = IF @ = {} THEN {now} ELSE @,
                         !.forceAt = @ \cup {now + GracePeriod}]
  IN  IF p.server = "none" THEN Exit(timed, "shutdown", 0)
      ELSE [timed EXCEPT !.server = IF @ = "listening" THEN "closing" ELSE @,
                         !.closeCallbacks = @ + 1]

\* the callback of server.close
closeCallback(p) ==
  IF p.db # 0 THEN [p EXCEPT !.db = 3, !.closeCalls = @ + 1]
  ELSE Exit(p, "shutdown", 0)

\* the callbacks registered for the 'close' event run in turn, until one
\* ends the process
RECURSIVE runCloseCallbacks(_, _)
runCloseCallbacks(p, n) ==
  IF n = 0 \/ Exited(p) THEN p
  ELSE runCloseCallbacks(closeCallback(p), n - 1)

\* dbStatusMap of GET /health
dbStatusMap(readyState) ==
  CASE readyState = 0 -> "disconnected"
    [] readyState = 1 -> "connected"
    [] readyState = 2 -> "connecting"
    [] readyState = 3 -> "disconnecting"
    [] OTHER -> "unknown"

\* a step of the process alone
ProcessStep(p) ==
  /\ ~Exited(proc)
  /\ proc' = p
  /\ UNCHANGED <<disk, unlinks, nextId, products, orders, queries, req, resp, nreq,
                 clock>>

\* await mongoose.connect(...) resolves
ConnectSucceeds ==
  /\ proc.connect = "attempt"
  /\ ProcessStep([proc EXCEPT !.connect = "done", !.successAt = proc.attempts,
                              !.db = IF @ = 2 THEN 1 ELSE @])

\* await mongoose.connect(...) rejects
ConnectFails ==
  /\ proc.connect = "attempt"
  /\ ProcessStep(connectFailed(proc, clock))

\* the timer of the delay fires and the next attempt begins
RetryTimerFires ==
  /\ proc.connect = "delay"
  /\ \E t \in proc.retryAt : clock >= t
  /\ ProcessStep([proc EXCEPT !.connect = "attempt", !.attempts = @ + 1,
                              !.retryAt = {}, !.db = IF @ = 0 THEN 2 ELSE @])

\* SIGTERM or SIGINT
Signal ==
  /\ proc.signals < MaxSignals
  /\ ProcessStep(gracefulShutdown(proc, clock))

\* the 'close' event of the server: its connections have ended, or it was
\* closed already when close was called again
ServerCloseEvent ==
  /\ proc.server \in {"closing", "closed"}
  /\ proc.closeCallbacks > 0
  /\ ProcessStep(runCloseCallbacks([proc EXCEPT !.server = "closed",
                                                !.closeCallbacks = 0],
                                   proc.closeCallbacks))

\* mongoose.connection.close(false) resolves or rejects
ConnectionCloseSettles ==
  /\ proc.closeCalls > 0
  /\ \E closed \in BOOLEAN :
       ProcessStep(IF closed
                   THEN Exit([proc EXCEPT !.db = 0, !.closeCalls = @ - 1],
                             "shutdown", 0)
                   ELSE Exit([proc EXCEPT !.closeCalls = @ - 1], "shutdown", 1))

\* a timer of the forced exit fires
ForceExitFires ==
  /\ \E t \in proc.forceAt : clock >= t
  /\ ProcessStep(Exit(proc, "timeout", 1))

\* time passes, up to the next timer
Tick ==
  /\ ~Exited(proc)
  /\ proc.retryAt \cup proc.forceAt # {}
  /\ \A t \in proc.retryAt \cup proc.forceAt : clock < t
  /\ clock' = clock + delay
  /\ UNCHANGED <<disk, unlinks, nextId, products, orders, queries, req, resp, nreq,
                 proc>>

\* GET /health, answered while the server listens
HealthCheck ==
  /\ nreq < MaxRequests
  /\ ~Exited(proc)
  /\ proc.server = "listening"
  /\ req' = [ep |-> "GET /health"]
  /\ resp' = [ep |-> "GET /health", status |-> 200,
              database |-> dbStatusMap(proc.db), uptime |-> clock]
  /\ nreq' = nreq + 1
  /\ UNCHANGED <<disk, unlinks, nextId, products, orders, queries, clock, proc>>

\* the process at its start: app.listen has returned a server or has thrown,
\* and the first attempt of connectDB is under way
InitProcess ==
  /\ disk = {} /\ unlinks = <<>> /\ nextId = 1 /\ queries = 0 /\ nreq = 0
  /\ orders = <<>> /\ clock = 0 /\ products = <<>>
  /\ req = NoReq
  /\ resp = NoResp
  /\ \E env \in {"production", "development"}, server \in {"listening", "none"} :
       proc = [Started EXCEPT !.env = env, !.server = server, !.db = 2,
                              !.connect = "attempt", !.successAt = 0]

NextProcess ==
  \/ ConnectSucceeds
  \/ ConnectFails
  \/ RetryTimerFires
  \/ Signal
  \/ ServerCloseEvent
  \/ ConnectionCloseSettles
  \/ ForceExitFires
  \/ Tick
  \/ HealthCheck

SpecProcess == InitProcess /\ [][NextProcess]_vars

\* timers fire and time passes
SpecProcessFair ==
  /\ SpecProcess
  /\ WF_vars(Tick)
  /\ WF_vars(RetryTimerFires)
  /\ WF_vars(ForceExitFires)

\* ---------------------------------------------------------------- claim C1
CopyingEndpoints == {"/upload/image", "/upload/fingerprint"}

\* C1: once POST /upload/image or POST /upload/fingerprint has answered, on
\* any path, every temporary file multer created for the request is gone
\* from the disk and was deleted exactly once.
C1_TempFileDeletedOnce ==
  resp.ep \in CopyingEndpoints =>
    \A f \in resp.temps : f \notin disk /\ UnlinkCount(unlinks, f) = 1

\* ---------------------------------------------------------------- claim C3
MultipartEndpoints ==
  {"/upload/image", "/upload/fingerprint", "/upload-image", "/api/upload"}

\* the file part is larger than 5 MiB or its MIME type is not image/*
OversizeOrNotImage(file) ==
  file.present /\ (file.size > FileSizeLimit \/ ~StartsWith(file.mimetype, ImageSlash))

\* C3: an upload whose file is larger than 5 MiB or whose MIME type does not
\* start with image/ is rejected on every multipart endpoint: the handler
\* body does not run, nothing is written to or left in permanent storage
\* and the answer is HTTP 400.
C3_RejectedUploadAnswers400 ==
  (resp.ep \in MultipartEndpoints /\ OversizeOrNotImage(req.file)) =>
    /\ ~resp.ran
    /\ resp.wrote = {}
    /\ resp.status = 400

\* ---------------------------------------------------------------- claim C5
Base64Endpoints == {"/upload/base64", "/upload-image/upload/base64"}

\* the request carries no imageData that isBase64 accepts
BadBase64Request ==
  /\ req.ep \in Base64Endpoints
  /\ (Falsy(req.imageData) \/ TypeOf(req.imageData) # "string"
        \/ ~isBase64(req.imageData))

\* C5 as stated: POST /upload/base64 with imageData missing, empty, not a
\* string or not accepted by isBase64 answers HTTP 400 with the message
\* 'Invalid or missing base64 image data' and writes no file.
C5_Original ==
  [][BadBase64Request' =>
       /\ resp'.status = 400
       /\ resp'.message = "Invalid or missing base64 image data"
       /\ disk' = disk]_vars

\* the message each router gives
InvalidBase64Message(ep) ==
  IF ep = "/upload/base64"
  THEN "Invalid or missing base64 image data"
  ELSE "Invalid base64 image data"

\* C5 as amended: such a request answers HTTP 400 and writes no file on both
\* routers; the message is 'Invalid or missing base64 image data' on the
\* category router and 'Invalid base64 image data' on the image router.
C5_InvalidBase64Rejected ==
  [][BadBase64Request' =>
       /\ resp'.status = 400
       /\ resp'.message = InvalidBase64Message(resp'.ep)
       /\ resp'.wrote = {}
       /\ disk' = disk]_vars

\* a data-URI of a non-image type was refused by the category router while
\* an earlier upload is on disk
C5_Witness ==
  /\ resp.ep = "/upload/base64"
  /\ TypeOf(req.imageData) = "string"
  /\ StartsWith(req.imageData.s, DataPrefix \o <<"t","e","x","t","/">>)
  /\ resp.status = 400
  /\ disk # {}

\* ---------------------------------------------------------------- claim C6
\* C6: for every imageData that isBase64 accepts, POST /upload/base64
\* succeeds when the disk can be written: one file is written, its
\* extension is the declared MIME subtype, and the answer is success with
\* imageUrl = '/uploads/' + fileName; the format of accepted data never
\* ends in a 500.
C6_AcceptedBase64Saved ==
  (resp.ep \in Base64Endpoints /\ isBase64(req.imageData) /\ req.writeOk) =>
    /\ resp.status = 200
    /\ resp.body.success
    /\ Cardinality(resp.wrote) = 1
    /\ resp.wrote \subseteq disk
    /\ resp.body.fileName \in resp.wrote
    /\ resp.body.fileName.ext
         = <<".">> \o SubtypeOf(DataUriMatch(req.imageData.s).mimeType)
    /\ resp.body.imageUrl = PublicUrl(resp.body.fileName)

\* ---------------------------------------------------------------- claim C7
\* the remote fetch threw or gave no usable body
FetchFailed(fetched) == fetched.threw \/ fetched.bodyThrew \/ fetched.body = <<>>

\* C7: when the fetch of POST /upload/url throws or yields no usable body,
\* urlToBase64 returns null, the endpoint answers HTTP 400 'Failed to fetch
\* image from URL' and nothing is written to permanent storage.
C7_FetchFailureAnswers400 ==
  (resp.ep = "/upload/url" /\ ~Falsy(req.imageUrl) /\ FetchFailed(req.fetched)) =>
    /\ urlToBase64(req.fetched) = Null
    /\ resp.status = 400
    /\ resp.message = "Failed to fetch image from URL"
    /\ resp.wrote = {}

\* ---------------------------------------------------------------- claim C8
\* C8: the remote-URL path stores a file only when the synthesized data-URI
\* is accepted by isBase64; a response whose content-type is missing, not
\* image/* or carries parameters is answered with HTTP 400 and stores
\* nothing (the disk being writable).
C8_UrlPathGated ==
  (resp.ep = "/upload/url" /\ ~Falsy(req.imageUrl) /\ ~FetchFailed(req.fetched)
     /\ req.writeOk) =>
    /\ resp.wrote # {} => isBase64(urlToBase64(req.fetched))
    /\ ~isBase64(urlToBase64(req.fetched)) =>
         (resp.status = 400 /\ resp.wrote = {})

\* ---------------------------------------------------------------- claim C4
\* s is data:image/<subtype>;base64,<payload> for a non-empty subtype of
\* lowercase letters and any payload
ImageDataUriForm(s) ==
  \E n \in 1..Len(s) :
    /\ Len(s) >= Len(DataImagePrefix) + n + Len(Base64Marker)
    /\ SubSeq(s, 1, Len(DataImagePrefix)) = DataImagePrefix
    /\ \A k \in 1..n : s[Len(DataImagePrefix) + k] \in Lower
    /\ SubSeq(s, Len(DataImagePrefix) + n + 1,
              Len(DataImagePrefix) + n + Len(Base64Marker)) = Base64Marker

\* C4: isBase64 returns true exactly for the strings of the form
\* data:image/<lowercase subtype>;base64,<payload>; it returns false for the
\* empty string, for every non-string value, for a URL, for a data-URI whose
\* MIME type is not image/* and for one without the ;base64, marker, and it
\* never throws.
C4_IsBase64Exact ==
  resp.ep = "isBase64" =>
    /\ ~resp.threw
    /\ resp.result <=> (TypeOf(req.str) = "string" /\ ImageDataUriForm(req.str.s))
    /\ TypeOf(req.str) # "string" => ~resp.result
    /\ req.str = Str(<<>>) => ~resp.result
    /\ (TypeOf(req.str) = "string" /\ StartsWith(req.str.s, HttpPrefix)) => ~resp.result
    /\ (TypeOf(req.str) = "string" /\ ~StartsWith(req.str.s, DataImagePrefix))
         => ~resp.result
    /\ (TypeOf(req.str) = "string"
          /\ \A i \in 1..Len(req.str.s) : ~StartsWithAt(req.str.s, i, Base64Marker))
         => ~resp.result

\* isBase64 has accepted a data-URI with a payload, and a payload-less one
C4_Witness ==
  /\ resp.ep = "isBase64"
  /\ resp.result
  /\ req.str.s = DataImagePrefix \o <<"j","p","e","g">> \o Base64Marker
                   \o <<"Q","U","J","D">>

\* ---------------------------------------------------------------- C2
EmbeddingEndpoints == {"POST /products", "PUT /products/:id", "/upload-image"}

\* C2: on the endpoints that embed uploaded files as data-URIs (POST
\* /products, PUT /products/:id and POST /upload-image), every temporary
\* file written for the request is gone from the disk when the response is
\* sent, whatever the exit path
C2_TempFilesRemoved ==
  resp.ep \in EmbeddingEndpoints => resp.temps \cap disk = {}

\* ---------------------------------------------------------------- C9
GetByIdEndpoints ==
  {"/products/:id", "productRoutes /:id", "menwomenkids /products/:id",
   "custom /products/:id"}

\* C9: every handler of GET /products/:id answers 400 and runs no store
\* lookup when the id is not 24 hexadecimal characters; for a well-formed
\* id it runs one lookup and answers 200 or 404
C9_MalformedIdRejected ==
  [][(nreq' = nreq + 1 /\ req'.ep \in GetByIdEndpoints) =>
       IF IsObjectIdShape(req'.id)
       THEN queries' = queries + 1 /\ resp'.status \in {200, 404}
       ELSE queries' = queries /\ resp'.status = 400]_vars

\* --------------------------------------------------------------- C10
\* orderData is missing, not an array, or an empty array
BadOrderData(v) == ~IsArray(v) \/ Len(v.a) = 0

\* C10: POST /orders with orderData missing, not an array or empty answers
\* 400 and leaves the orders as they were; the orders change only by a
\* request with a non-empty array, and a request that succeeds appends
\* exactly one order
C10_OrderDataValidated ==
  [][(nreq' = nreq + 1 /\ req'.ep = "POST /orders") =>
       /\ BadOrderData(req'.orderData) =>
            resp'.status = 400 /\ orders' = orders
       /\ orders' # orders => ~BadOrderData(req'.orderData)
       /\ IF resp'.status = 201
          THEN /\ Len(orders') = Len(orders) + 1
               /\ SubSeq(orders', 1, Len(orders)) = orders
          ELSE orders' = orders]_vars

\* an empty array is refused although an order has been saved before, and
\* that order is still the only one
C10_Witness ==
  /\ resp.ep = "POST /orders"
  /\ req.orderData = Arr(<<>>)
  /\ resp.status = 400
  /\ Len(orders) = 1

\* --------------------------------------------------------------- C11
\* the request was a POST /orders that saved an order, the last one stored
OrderSaved == resp.ep = "POST /orders" /\ resp.status = 201
LastOrder == orders[Len(orders)]

\* the price as the claim parses it: every character but digits, '.' and
\* '-' removed, the rest read as a number, 0 on failure (in hundredths)
StatedPrice(item) ==
  LET x == parseFloat(SelectSeq(StringOf(item.price),
                                LAMBDA c : c \in Digit \cup {".", "-"}))
  IN  IF x.nan THEN 0 ELSE x.n

\* the quantity as the claim parses it: integer parsing, 1 on failure
StatedQuantity(item) ==
  LET x == parseInt(item.quantity) IN IF x.nan THEN 1 ELSE x.n

\* the quantity with 1 also in place of a parsed 0
QuantityOrOne(item) ==
  LET x == parseInt(item.quantity) IN IF x.nan \/ x.n = 0 THEN 1 ELSE x.n

\* the sum of price times quantity over the first k lines
RECURSIVE SumOfLines(_, _, _)
SumOfLines(prices, quantities, k) ==
  IF k = 0 THEN 0
  ELSE prices[k] * quantities[k] + SumOfLines(prices, quantities, k - 1)

\* the saved order holds, line by line, the parsed price and quantity and
\* their product with two decimals, and the sum of the products as total
OrderMatches(quantity(_)) ==
  LET items == req.orderData.a
      lines == LastOrder.orderData
  IN  /\ Len(lines) = Len(items)
      /\ \A k \in 1..Len(items) :
           /\ lines[k].price = StatedPrice(items[k])
           /\ lines[k].quantity = quantity(items[k])
           /\ lines[k].total =
                <<CurrencySign, " ">>
                  \o toFixed2(StatedPrice(items[k]) * quantity(items[k]))
      /\ LastOrder.totalAmount =
           SumOfLines([k \in 1..Len(items) |-> StatedPrice(items[k])],
                      [k \in 1..Len(items) |-> quantity(items[k])], Len(items))

\* C11 as stated: every persisted order has totalAmount equal to the sum of
\* parsed price times parsed quantity over its lines, each line's total is
\* its price times its quantity with two decimals, the price is 0 and the
\* quantity 1 when parsing fails
C11_Original == OrderSaved => OrderMatches(StatedQuantity)

\* C11: the same, with the quantity 1 when parsing fails or gives 0
C11_TotalIsSumOfLines == OrderSaved => OrderMatches(QuantityOrOne)

\* the order of the example: lines of 2000.00 and 500.00, total 2500.00
C11_Witness ==
  /\ OrderSaved
  /\ req.orderData =
       Arr(<<Item(Str(<<"1",",","0","0","0",".","0","0">>), Num(2)),
             Item(Num(500), Str(<<"1">>))>>)
  /\ LastOrder.totalAmount = 250000
  /\ LastOrder.orderData[1].total = <<CurrencySign, " ", "2","0","0","0",".","0","0">>
  /\ LastOrder.orderData[2].total = <<CurrencySign, " ", "5","0","0",".","0","0">>

\* --------------------------------------------------------------- C12
\* C12: every line of every persisted order has a quantity that is an
\* integer of at least 1 and a price of at least 0, whatever the client
\* submitted
C12_LinesNonNegative ==
  OrderSaved =>
    \A k \in 1..Len(LastOrder.orderData) :
      /\ LastOrder.orderData[k].quantity \in Int
      /\ LastOrder.orderData[k].quantity >= 1
      /\ LastOrder.orderData[k].price >= 0

\* --------------------------------------------------------------- C13
\* C13: whatever requests the order and dashboard endpoints serve, every
\* stored order has status "Pending", also when the body carries a status,
\* and the orders only grow: the orders stored before a step are still
\* there after it, in place and unchanged
C13_OrdersPendingAndKept ==
  [][/\ Len(orders') >= Len(orders)
     /\ SubSeq(orders', 1, Len(orders)) = orders
     /\ \A k \in 1..Len(orders') : orders'[k].status = "Pending"]_vars

\* an order is saved as Pending from a body that asks for "Shipped", after
\* the three orders the server held
C13_Witness ==
  /\ OrderSaved
  /\ req.status = Shipped
  /\ Len(orders) = 4
  /\ LastOrder.status = "Pending"

\* --------------------------------------------------------------- C14
SummaryAnswered == resp.ep = "GET /dashboard/summary" /\ resp.status = 200

\* the orders of the handler's window for the month of the request, and for
\* the month before it
WindowOrders(back) ==
  OrdersBetween(orders, firstDayOf(MonthOf(req.at) - back),
                lastDayOf(MonthOf(req.at) - back))

\* the growth as stated: 0 when the previous figure is 0, else the change
\* in percent with one decimal (in tenths of a percent)
StatedGrowth(current, previous) ==
  IF previous = 0 THEN 0
  ELSE IF previous > 0 THEN Rounded((current - previous) * 1000, previous)
  ELSE Rounded((previous - current) * 1000, -previous)

\* C14: in GET /dashboard/summary revenueGrowth is 0 when the previous
\* month's sales are 0 and ordersGrowth is 0 when the previous month has no
\* orders; otherwise each is (current - previous) / previous * 100 with one
\* decimal
C14_GrowthFormula ==
  SummaryAnswered =>
    /\ resp.body.revenueGrowth =
         StatedGrowth(SalesOf(WindowOrders(0)), SalesOf(WindowOrders(1)))
    /\ resp.body.ordersGrowth =
         StatedGrowth(Len(WindowOrders(0)), Len(WindowOrders(1)))

\* --------------------------------------------------------------- C15
\* the orders created in the calendar month that lies back months before
\* the month of the request
OrdersOfMonth(back) ==
  SelectSeq(orders, LAMBDA o : MonthOf(o.createdAt) = MonthOf(req.at) - back)

\* C15: monthlySales is the sum of totalAmount over exactly the orders
\* created in the current calendar month, the last day of the month
\* included, and the previous-month figures follow the same rule for the
\* previous calendar month
C15_MonthlyWindow ==
  SummaryAnswered =>
    /\ resp.body.monthlySales = SalesOf(OrdersOfMonth(0))
    /\ resp.body.ordersGrowth =
         growth(Len(OrdersOfMonth(0)), Len(OrdersOfMonth(1)))

\* --------------------------------------------------------------- C16
\* C16: totalCustomers is the number of distinct non-empty emails over all
\* orders, totalSales the sum of totalAmount over all orders, and
\* customersGrowth the change in percent of the current month's
\* distinct-email count against the previous month's, 0 when that is 0
C16_CustomerFigures ==
  SummaryAnswered =>
    /\ resp.body.totalCustomers = Cardinality(EmailsOf(orders))
    /\ resp.body.totalSales = SalesOf(orders)
    /\ resp.body.customersGrowth =
         StatedGrowth(Cardinality(EmailsOf(WindowOrders(0))),
                      Cardinality(EmailsOf(WindowOrders(1))))

\* --------------------------------------------------------------- C17
DemographicCategories == {"men", "women", "kids", "couples"}

\* the ids of the products a listing has answered with
ReturnedIds ==
  {(IF "_id" \in DOMAIN resp.body.products[k] THEN resp.body.products[k]._id
    ELSE resp.body.products[k].id) : k \in 1..Len(resp.body.products)}

\* C17: whatever the collection holds and whatever the query string is, the
\* listings GET /products/category/men, /women, /kids and /couples never
\* answer with a product whose stored customOption is exactly "None" or is
\* absent (the unisex listing and GET /products may)
C17_PlainProductsHidden ==
  \A category \in DemographicCategories :
    (resp.ep = "GET /products/category/" \o category /\ resp.status = 200) =>
      \A j \in 1..Len(products) :
        products[j]._id \in ReturnedIds =>
          /\ products[j].customOption # Str(<<"N","o","n","e">>)
          /\ products[j].customOption # Undefined

\* --------------------------------------------------------------- C18
\* the demographic name a category listing stands for
DemographicName(category) ==
  CASE category = "men"   -> <<"m","a","l","e">>
    [] category = "women" -> <<"f","e","m","a","l","e">>
    [] OTHER -> toLowerCase(CHOOSE w \in categorySpellings(category) : TRUE)

\* the request carries no parameter of its own
NoParameters ==
  \A f \in DOMAIN req.q : req.q[f] = Undefined

\* C18: a stored product whose peopleCategory is the demographic name in any
\* casing, and which passes the other filters of the listing, is returned by
\* that demographic's listing: on the /products/category/* routes, on
\* /products/kids, on /products/{men,women,kids}/* and on the
\* /{men,women,kids}-* routes
C18_CaseInsensitiveDemographic ==
  (resp # NoResp /\ resp.status = 200) =>
    /\ \A category \in DemographicCategories \cup {"unisex"} :
         req.ep = "GET /products/category/" \o category =>
           \A j \in 1..Len(products) :
             (/\ toLowerCase(products[j].peopleCategory.s) = DemographicName(category)
              /\ category = "unisex" \/ plainOption(products[j])
              /\ additionalFilters(products[j], req.q))
               => products[j]._id \in ReturnedIds
    /\ (req.ep = "GET /products/kids" /\ NoParameters) =>
         \A j \in 1..Len(products) :
           (/\ toLowerCase(products[j].peopleCategory.s) = <<"k","i","d","s">>
            /\ products[j].customOption # NoCustom)
             => products[j]._id \in ReturnedIds
    /\ \A route \in CategoryRoutes \cup FilteredRoutes :
         (req.ep = "GET " \o route.path
            /\ ("q" \in DOMAIN req => NoParameters)) =>
           \A j \in 1..Len(products) :
             (/\ toLowerCase(products[j].peopleCategory.s)
                   = toLowerCase(route.peopleCategory.s)
              /\ products[j].productCategory = route.productCategory
              /\ products[j].customOption # NoCustom)
               => products[j]._id \in ReturnedIds

\* --------------------------------------------------------------- C19
\* the stored images of the projected product, none when the field is absent
StoredList ==
  IF products[1].images = Undefined THEN <<>> ELSE products[1].images.a

\* isBase64 accepts the entry, or it starts with '/api/placeholder/'
ValidEntry(img) == isBase64(img) \/ StartsWith(img.s, PlaceholderPrefix)

\* the positions of the first four valid entries of the stored list
KeptPositions ==
  {i \in 1..Len(StoredList) :
     /\ ValidEntry(StoredList[i])
     /\ Cardinality({j \in 1..i : ValidEntry(StoredList[j])}) <= 4}

\* C19: for every stored images value (absent, empty or a list of strings)
\* mapProducts yields an images list of 1 to 4 entries, each accepted by
\* isBase64 or starting with '/api/placeholder/', which is the first four
\* valid stored entries in their stored order, or
\* ['/api/placeholder/400/400'] when no stored entry is valid; mainImage is
\* the first entry of that list, inStock is stock > 0, and customizationType
\* is the lowercased customOption, or 'none' when customOption is empty or
\* absent
C19_Projection ==
  resp.ep = "mapProducts" =>
    LET out == resp.products[1]
    IN  /\ Len(resp.products) = 1
        /\ Len(out.images) \in 1..4
        /\ \A k \in 1..Len(out.images) : ValidEntry(out.images[k])
        /\ IF KeptPositions = {} THEN out.images = <<Placeholder>>
           ELSE /\ Len(out.images) = Cardinality(KeptPositions)
                /\ \A i \in KeptPositions :
                     out.images[Cardinality({j \in KeptPositions : j <= i})]
                       = StoredList[i]
        /\ out.mainImage = out.images[1]
        /\ out.inStock = (products[1].stock > 0)
        /\ out.customizationType =
             IF products[1].customOption \in {Undefined, Str(<<>>)}
             THEN <<"n","o","n","e">>
             ELSE toLowerCase(products[1].customOption.s)

\* a product storing an invalid entry followed by more than four valid ones
\* is projected with four images and the customization type 'engraving'
C19_Witness ==
  /\ resp.ep = "mapProducts"
  /\ Len(StoredList) = 5
  /\ StoredList[1] = BadImage
  /\ Cardinality(KeptPositions) = 4
  /\ Len(resp.products[1].images) = 4
  /\ resp.products[1].images[1] # resp.products[1].images[2]
  /\ resp.products[1].customizationType = <<"e","n","g","r","a","v","i","n","g">>
  /\ resp.products[1].inStock

\* --------------------------------------------------------------- C20
\* C20: after any sequence of product writes, every stored product that was
\* written with a customOption carries a customizationType equal to that
\* customOption in lowercase: no write leaves it stale, missing or different
C20_CustomizationTypeInSync ==
  \A id \in DOMAIN products :
    ~Falsy(products[id].customOption) =>
      /\ "customizationType" \in DOMAIN products[id]
      /\ products[id].customizationType = toLowerCase(products[id].customOption.s)

\* --------------------------------------------------------------- C21
\* C21: a PUT /products/:id that succeeds stores the previous images of the
\* product without the entries at the deleteImages indices, in their order,
\* followed by every newly ingested image (the uploaded files, then the
\* newImages data-URIs) in submission order; a deleteImages index never
\* removes a newly added image
C21_DeletedThenAppended ==
  [][(nreq' = nreq + 1 /\ req'.ep = "PUT /products/:id" /\ resp'.status = 200) =>
       LET id == CastObjectId(req'.id)
           ingested == [k \in 1..Len(req'.files) |-> EmbeddedImage(req'.files[k])]
                         \o Base64Only(req'.data.newImages)
       IN  products'[id].images
             = WithoutIndexes(products[id].images, req'.data.deleteImages)
                 \o ingested]_vars

\* --------------------------------------------------------------- C22
\* the key the requested sort orders by, ascending: newest first unless the
\* sort is one of the four named ones
RequestedKey(doc) ==
  IF req.q.sortBy = Str(<<"a","l","p","h","a","-","a","s","c">>) THEN nameKey(doc)
  ELSE IF req.q.sortBy = Str(<<"a","l","p","h","a","-","d","e","s","c">>)
  THEN -nameKey(doc)
  ELSE IF req.q.sortBy = Str(<<"p","r","i","c","e","-","a","s","c">>) THEN doc.price
  ELSE IF req.q.sortBy = Str(<<"p","r","i","c","e","-","d","e","s","c">>)
  THEN -doc.price
  ELSE -doc.createdAt

\* C22: GET /products, when the store answers and the price bounds are
\* numbers, answers 200 with exactly the products that match the filter
\* conjunction, each once, ordered by name or price as requested and newest
\* first when no sort or an unrecognised sort is requested
C22_ListingOrder ==
  (req.ep = "GET /products" /\ req.storeOk /\ ~priceCastFails(req.q)) =>
    /\ resp.status = 200
    /\ Len(resp.body.products)
         = Cardinality({j \in 1..Len(products) :
              /\ Falsy(req.peopleCategory)
                   \/ products[j].peopleCategory = req.peopleCategory
              /\ additionalFilters(products[j], req.q)})
    /\ \A j \in 1..Len(products) :
         (/\ Falsy(req.peopleCategory)
               \/ products[j].peopleCategory = req.peopleCategory
          /\ additionalFilters(products[j], req.q))
           <=> products[j]._id \in ReturnedIds
    /\ \A i, j \in 1..Len(resp.body.products) :
         i < j => RequestedKey(resp.body.products[i])
                    <= RequestedKey(resp.body.products[j])

\* --------------------------------------------------------------- C29
\* the customization-aware listings
CustomizationAware ==
  {"GET /products/kids"}
    \cup {"GET " \o route.path : route \in CategoryRoutes \cup FilteredRoutes}

\* C29: whatever the query parameters are, GET /products/kids, the
\* /products/{kids,women,men}/{rings,pendants,bracelets} routes and the
\* /{kids,women,men}-{rings,pendants,bracelets} routes never answer with a
\* product whose stored customOption is "None"
C29_NoneNeverListed ==
  (resp.ep \in CustomizationAware /\ resp.status = 200) =>
    \A j \in 1..Len(products) :
      products[j]._id \in ReturnedIds =>
        products[j].customOption # Str(<<"N","o","n","e">>)

\* --------------------------------------------------------------- C27
\* the stored products a search with inStock=true has to find: those that
\* pass the other filters and have stock > 0
InStockMatches ==
  {j \in 1..Len(products) :
     searchFilters(products[j], req.query) /\ products[j].stock > 0}

\* C27: GET /products/search with inStock=true finds exactly the products
\* that pass the other filters and have stock > 0: total is their number,
\* totalPages is ceil(total / limit), count is the number of products
\* returned and is at most limit, and the products returned are the page-th
\* slice of those products ordered newest first
C27_InStockSearch ==
  (req.ep = "GET /products/search" /\ resp.status = 200
     /\ req.query.inStock = Str(<<"t","r","u","e">>)) =>
    LET limit == OrElse(parseInt(req.query.limit), 10)
        page  == OrElse(parseInt(req.query.page), 1)
        newer(j) == Cardinality({k \in InStockMatches :
                       products[k].createdAt > products[j].createdAt})
    IN  /\ resp.body.total = Cardinality(InStockMatches)
        /\ resp.body.totalPages * limit >= resp.body.total
        /\ (resp.body.totalPages - 1) * limit < resp.body.total
        /\ resp.body.count = Len(resp.body.products)
        /\ resp.body.count <= limit
        /\ \A j \in InStockMatches :
             IF newer(j) \in ((page - 1) * limit)..(page * limit - 1)
             THEN /\ Len(resp.body.products) >= newer(j) - (page - 1) * limit + 1
                  /\ resp.body.products[newer(j) - (page - 1) * limit + 1]._id
                       = products[j]._id
             ELSE products[j]._id \notin ReturnedIds
        /\ \A id \in ReturnedIds :
             \E j \in InStockMatches : products[j]._id = id

\* the paths /api/orders/recent and /api/orders, below /api
RecentPath == <<<<"o","r","d","e","r","s">>, <<"r","e","c","e","n","t">>>>
OrdersPath == <<<<"o","r","d","e","r","s">>>>

\* C25: with the routers mounted in the order of routes/index.js, a GET of
\* /orders/recent is answered by the recent-orders handler, with at most ten
\* orders, the most recently created ones, newest first, and is never handled
\* as GET /orders/:id with the id "recent"; a GET of /orders answers all the
\* orders, newest first.
C25_RecentOrdersRouted ==
  (req.ep = "GET /api" /\ req.storeOk) =>
    /\ req.path = RecentPath =>
         /\ resp.ep = "GET /orders/recent"
         /\ resp.status = 200
         /\ Len(resp.body) <= 10
         /\ \E sorted \in SortedNewestFirst(orders) :
              resp.body = SubSeq(sorted, 1, Len(resp.body))
         /\ Len(resp.body) = Len(orders) \/ Len(resp.body) = 10
    /\ req.path = OrdersPath =>
         /\ resp.ep = "GET /orders"
         /\ resp.status = 200
         /\ resp.body.orders \in SortedNewestFirst(orders)

\* the path /api/products/search, below /api
SearchPath == <<<<"p","r","o","d","u","c","t","s">>, <<"s","e","a","r","c","h">>>>

\* C28: with the routers mounted in the order of routes/index.js, a GET of
\* /api/products/search reaches the search handler and answers the paginated
\* search result; no parameterized route registered earlier takes "search"
\* for an id.
C28_SearchReachesHandler ==
  (req.ep = "GET /api" /\ req.path = SearchPath /\ req.storeOk) =>
    /\ resp.ep = "GET /products/search"
    /\ resp.status = 200
    /\ resp.body.total = Len(products)
    /\ resp.body.currentPage = 1

\* C26: isBase64 is the sole gate for stored images: after any sequence of
\* product create and update calls through any product write endpoint, every
\* entry of every stored product's images list is a string isBase64 accepts.
C26_StoredImagesGated ==
  \A id \in DOMAIN products :
    \A k \in 1..Len(products[id].images) : isBase64(products[id].images[k])

\* the answer carries a detail of the error it answers
CarriesDetail ==
  \/ resp.message = req.err.message
  \/ resp.body.error.kind \in {"message", "object"}

\* C24: in production every HTTP 500 answered by a route handler or by the
\* general error middleware carries a generic message only: the body never
\* holds the message, the name or the stack of the exception.
C24_ProductionHidesDetail ==
  (resp # NoResp /\ req.env = "production" /\ resp.status = 500) => ~CarriesDetail

\* what the claim C23 says of the attempts themselves: at most five, each
\* retry after one wait of the fixed delay, and none after a success
AttemptsBounded ==
  /\ proc.attempts <= 5
  /\ proc.successAt # 0 => proc.attempts = proc.successAt /\ proc.connect = "done"
  /\ \A k \in 1..Len(proc.delays) : proc.delays[k] = 5000
  /\ Len(proc.delays) = (IF proc.connect = "delay" THEN proc.attempts
                         ELSE proc.attempts - 1)
  /\ proc.failures = (IF proc.connect = "attempt" \/ proc.successAt # 0
                      THEN proc.attempts - 1 ELSE proc.attempts)

\* all five attempts have failed
AllAttemptsFailed == proc.failures = 5

\* C23 as stated: connectDB attempts the connection at most 5 times with a
\* fixed delay between failed attempts and never retries after a success; when
\* all 5 attempts fail it gives up and the process keeps serving, it does not
\* exit, in every environment.
C23_Original ==
  /\ AttemptsBounded
  /\ AllAttemptsFailed =>
       /\ proc.exit.by # "connectDB"
       /\ proc.signals = 0 => ~Exited(proc)

\* C23: connectDB attempts the connection at most 5 times with a fixed delay
\* between failed attempts and never retries after a success; when all 5
\* attempts fail, in production it gives up and the process keeps serving, and
\* in any other environment the process exits with code 1.
C23_RetriesThenGivesUp ==
  /\ AttemptsBounded
  /\ (AllAttemptsFailed /\ proc.env = "production") =>
       /\ proc.exit.by # "connectDB"
       /\ proc.connect = "gaveUp"
       /\ proc.signals = 0 => ~Exited(proc)
  /\ (AllAttemptsFailed /\ proc.env # "production") =>
       proc.exit = [by |-> "connectDB", code |-> 1]

\* in production all five attempts have failed, each retry 5 s after the
\* failure before it, and the server has answered a request since
C23_Witness ==
  /\ proc.env = "production"
  /\ AllAttemptsFailed
  /\ proc.delays = <<5000, 5000, 5000, 5000>>
  /\ ~Exited(proc)
  /\ resp # NoResp
  /\ resp.database = "disconnected"
  /\ resp.uptime = 20000

\* C30, the part that holds in every state: the store connection is closed
\* only after the close callback of the server has run, the exit code is 0
\* only if the connection was closed or was not open, and the process does
\* not outlive the grace period, at whose end it exits with code 1
ShutdownInOrder ==
  /\ proc.closeCalls > 0 => proc.server = "closed"
  /\ (Exited(proc) /\ proc.exit.by = "shutdown" /\ proc.exit.code = 0) =>
       proc.db # 1
  /\ proc.exit.by = "timeout" => proc.exit.code = 1
  /\ \A t \in proc.signalAt : clock <= t + 30000

\* C30: after a SIGTERM or SIGINT the process eventually exits: the server is
\* closed first, the store connection only after the close callback of the
\* server has run, the exit code is 0 only if the connection closed
\* successfully or there was no open connection, the exit is forced with code
\* 1 when the grace period of 30 s ends, and a second signal does not prevent
\* the exit.
C30_GracefulShutdown ==
  /\ []ShutdownInOrder
  /\ (proc.signals > 0) ~> Exited(proc)

====
